---- MODULE Spec2Model ----
(***************************************************************************)
(* Gobblet: the board and its covering rules (src/src/gobblet/board.py),   *)
(* the pieces (piece.py), the players' piece sets (player.py) and the      *)
(* per-turn game state machine (game.py).                                  *)
(*                                                                         *)
(* A piece is a record [id, color, size]; Python's None is NoPiece for a   *)
(* piece, <<>> for a coordinate pair and "none" for a colour.  A cell's    *)
(* stack is a sequence of pieces, the top piece last.  The position field  *)
(* of the players' Piece objects is the function position, keyed by id.    *)
(***************************************************************************)
EXTENDS Integers, Sequences, FiniteSets, TLC

VARIABLES
    size,            \* Board.size
    board,           \* Board.positions: cell -> stack of pieces
    position,        \* Piece.position of every player piece: <<>> or <<row, col>>
    current_player,  \* colour of GobbletGame.current_player
    game_over,       \* GobbletGame.game_over
    winner,          \* GobbletGame.winner
    turn_count,      \* GobbletGame.turn_count
    max_turns,       \* GobbletGame.max_turns
    moves,           \* MoveTracker.moves
    move_counter,    \* MoveTracker.move_counter
    last,            \* the last call on the board: arguments, result, the board before it
    turn,            \* the last call of play_turn: the move chosen, the result, the game before it
    num_games,       \* run_batch_simulation: the number of games asked for
    parallel,        \* run_batch_simulation: whether the pool runs the games
    job,             \* the games of the batch: how far each is, its thread, its winner
    games,           \* GameDataManager.games
    file,            \* the content of GameDataManager.data_file
    results,         \* the list results of the batch
    analysis,        \* what run_batch_simulation returns
    rng,             \* the game whose draw left the random module's generator as it is
    strategies,      \* run_tournament: the strategy names
    matchup          \* run_tournament: the number of the matchup being run, row by row

tournamentVars == <<strategies, matchup>>

batchVars == <<num_games, parallel, job, games, file, results, analysis, rng, tournamentVars>>

vars == <<size, board, position, current_player, game_over, winner,
          turn_count, max_turns, moves, move_counter, last, turn, batchVars>>

----------------------------------------------------------------------------
(* piece.py *)

LIGHT == "light"
DARK == "dark"
NONE == "none"
Colors == {LIGHT, DARK}

SMALL == 1
MEDIUM == 2
LARGE == 3
PieceSizes == {SMALL, MEDIUM, LARGE}

NoPiece == [id |-> -2, color |-> NONE, size |-> 0]

Piece(color, sz, piece_id) == [id |-> piece_id, color |-> color, size |-> sz]

CanCover_Geq(p, other) == p.size >= other.size

\* Piece.can_cover
CanCover(p, other) == p.size > other.size

OpponentOf(color) == IF color = LIGHT THEN DARK ELSE LIGHT

----------------------------------------------------------------------------
(* player.py: the pieces a player is constructed with *)

PIECES_PER_SIZE == 3

FirstPieceId(color) == IF color = LIGHT THEN 0 ELSE 12

\* Player._init_pieces: three pieces of each size, ids counting up from the base
InitPieces(color) ==
    { Piece(color, s, FirstPieceId(color) + (s - 1) * PIECES_PER_SIZE + k) :
        s \in PieceSizes, k \in 0 .. (PIECES_PER_SIZE - 1) }

AllPieces == InitPieces(LIGHT) \cup InitPieces(DARK)

PieceIds == { p.id : p \in AllPieces }

\* Piece.__eq__ compares ids only
InPieces(p, pieces) == \E q \in pieces : q.id = p.id

----------------------------------------------------------------------------
(* board.py: BoardPosition *)

\* BoardPosition.top_piece
TopPiece(stack) == IF Len(stack) = 0 THEN NoPiece ELSE stack[Len(stack)]

\* BoardPosition.add_piece: the new stack and whether the piece was added
AddPiece(stack, p) ==
    IF Len(stack) > 0 /\ ~CanCover(p, TopPiece(stack))
    THEN [ok |-> FALSE, stack |-> stack]
    ELSE [ok |-> TRUE, stack |-> Append(stack, p)]

----------------------------------------------------------------------------
(* board.py: Board *)

Cells(n) == (0 .. (n - 1)) \X (0 .. (n - 1))

\* Board.__init__
EmptyBoard(n) == [cell \in Cells(n) |-> <<>>]

\* Board._is_valid_position
IsValidPosition(n, row, col) == 0 <= row /\ row < n /\ 0 <= col /\ col < n

\* Board.get_top_piece
GetTopPiece(b, n, row, col) ==
    IF ~IsValidPosition(n, row, col) THEN NoPiece ELSE TopPiece(b[<<row, col>>])

\* Board.is_position_empty
IsPositionEmpty(b, n, row, col) ==
    IF ~IsValidPosition(n, row, col) THEN FALSE ELSE Len(b[<<row, col>>]) = 0

RowLine(n, row) == [i \in 1 .. n |-> <<row, i - 1>>]
ColLine(n, col) == [i \in 1 .. n |-> <<i - 1, col>>]
MainDiagonal(n) == [i \in 1 .. n |-> <<i - 1, i - 1>>]
AntiDiagonal(n) == [i \in 1 .. n |-> <<i - 1, n - 1 - (i - 1)>>]

\* the opponent_count of Board._line_has_three_in_row_threat
OpponentCount(b, n, line, opponent_color) ==
    Cardinality({ i \in 1 .. Len(line) :
        LET top == GetTopPiece(b, n, line[i][1], line[i][2])
        IN  top # NoPiece /\ top.color = opponent_color })

LineHasThreeInRowThreat_AtLeast(b, n, line, opponent_color, target_pos) ==
    /\ OpponentCount(b, n, line, opponent_color) >= 3
    /\ \E i \in 1 .. Len(line) :
          /\ line[i] = target_pos
          /\ LET top == GetTopPiece(b, n, line[i][1], line[i][2])
             IN  top # NoPiece /\ top.color = opponent_color

\* Board._line_has_three_in_row_threat
LineHasThreeInRowThreat(b, n, line, opponent_color, target_pos) ==
    /\ OpponentCount(b, n, line, opponent_color) = 3
    /\ \E i \in 1 .. Len(line) :
          /\ line[i] = target_pos
          /\ LET top == GetTopPiece(b, n, line[i][1], line[i][2])
             IN  top # NoPiece /\ top.color = opponent_color

\* the lines_to_check of Board._is_blocking_three_in_row
LinesToCheck(n, row, col) ==
    {RowLine(n, row), ColLine(n, col)}
      \cup (IF row = col THEN {MainDiagonal(n)} ELSE {})
      \cup (IF row + col = n - 1 THEN {AntiDiagonal(n)} ELSE {})

\* Board._is_blocking_three_in_row
IsBlockingThreeInRow(b, n, row, col, opponent_color) ==
    \E line \in LinesToCheck(n, row, col) :
        LineHasThreeInRowThreat(b, n, line, opponent_color, <<row, col>>)

IsPlacementValid_AlwaysNewRule(b, n, p, row, col, is_new_piece) ==
    LET stack == b[<<row, col>>]
        top == TopPiece(stack)
    IN  IF Len(stack) = 0 THEN TRUE
        ELSE IF top.color = p.color THEN FALSE
        ELSE IF ~CanCover(p, top) THEN FALSE
        ELSE IsBlockingThreeInRow(b, n, row, col, top.color)

IsPlacementValid_NeverNewRule(b, n, p, row, col, is_new_piece) ==
    LET stack == b[<<row, col>>]
        top == TopPiece(stack)
    IN  IF Len(stack) = 0 THEN TRUE
        ELSE IF top.color = p.color THEN FALSE
        ELSE CanCover(p, top)

IsPlacementValid_OnOwnPiece(b, n, p, row, col, is_new_piece) ==
    LET stack == b[<<row, col>>]
        top == TopPiece(stack)
    IN  IF Len(stack) = 0 THEN TRUE
        ELSE IF ~CanCover(p, top) THEN FALSE
        ELSE IF is_new_piece THEN IsBlockingThreeInRow(b, n, row, col, top.color)
        ELSE TRUE

\* Board._is_placement_valid
IsPlacementValid(b, n, p, row, col, is_new_piece) ==
    LET stack == b[<<row, col>>]
        top == TopPiece(stack)
    IN  IF Len(stack) = 0 THEN TRUE
        ELSE IF top.color = p.color THEN FALSE
        ELSE IF ~CanCover(p, top) THEN FALSE
        ELSE IF is_new_piece THEN IsBlockingThreeInRow(b, n, row, col, top.color)
        ELSE TRUE

\* the piece's position field after a write (only the players' pieces are tracked)
SetPosition(pos, p, where) ==
    IF p.id \in DOMAIN pos THEN [pos EXCEPT ![p.id] = where] ELSE pos

PlacePiece_WritesPositionFirst(b, pos, n, p, row, col, is_new_piece) ==
    IF ~IsValidPosition(n, row, col)
    THEN [ok |-> FALSE, board |-> b, position |-> pos]
    ELSE IF ~IsPlacementValid(b, n, p, row, col, is_new_piece)
    THEN [ok |-> FALSE, board |-> b, position |-> SetPosition(pos, p, <<row, col>>)]
    ELSE LET added == AddPiece(b[<<row, col>>], p)
         IN  IF added.ok
             THEN [ok |-> TRUE,
                   board |-> [b EXCEPT ![<<row, col>>] = added.stack],
                   position |-> SetPosition(pos, p, <<row, col>>)]
             ELSE [ok |-> FALSE, board |-> b, position |-> pos]

\* Board.place_piece: [ok, board, position]
PlacePiece(b, pos, n, p, row, col, is_new_piece) ==
    IF ~IsValidPosition(n, row, col)
    THEN [ok |-> FALSE, board |-> b, position |-> pos]
    ELSE IF ~IsPlacementValid(b, n, p, row, col, is_new_piece)
    THEN [ok |-> FALSE, board |-> b, position |-> pos]
    ELSE LET added == AddPiece(b[<<row, col>>], p)
         IN  IF added.ok
             THEN [ok |-> TRUE,
                   board |-> [b EXCEPT ![<<row, col>>] = added.stack],
                   position |-> SetPosition(pos, p, <<row, col>>)]
             ELSE [ok |-> FALSE, board |-> b, position |-> pos]

\* Board.place_piece of a Piece object that is none of the players' objects,
\* though it may have the id of one: the position written is its own
PlaceOtherPiece(b, pos, n, p, row, col, is_new_piece) ==
    [PlacePiece(b, <<>>, n, p, row, col, is_new_piece) EXCEPT !.position = pos]

\* Board.remove_piece (BoardPosition.remove_top_piece): [piece, board, position]
RemovePiece(b, pos, n, row, col) ==
    IF ~IsValidPosition(n, row, col)
    THEN [piece |-> NoPiece, board |-> b, position |-> pos]
    ELSE LET stack == b[<<row, col>>]
         IN  IF Len(stack) = 0
             THEN [piece |-> NoPiece, board |-> b, position |-> pos]
             ELSE [piece |-> TopPiece(stack),
                   board |-> [b EXCEPT ![<<row, col>>] = SubSeq(stack, 1, Len(stack) - 1)],
                   position |-> SetPosition(pos, TopPiece(stack), <<>>)]

\* Board._check_line
CheckLine(b, n, positions) ==
    IF Len(positions) < n THEN NONE
    ELSE LET first_piece == GetTopPiece(b, n, positions[1][1], positions[1][2])
         IN  IF first_piece = NoPiece THEN NONE
             ELSE IF \A i \in 2 .. Len(positions) :
                        LET piece == GetTopPiece(b, n, positions[i][1], positions[i][2])
                        IN  piece # NoPiece /\ piece.color = first_piece.color
                  THEN first_piece.color
                  ELSE NONE

\* the order in which Board.check_winner scans: rows, columns, the two diagonals
WinnerScan(n) ==
    [i \in 1 .. (2 * n + 2) |->
        IF i <= n THEN RowLine(n, i - 1)
        ELSE IF i <= 2 * n THEN ColLine(n, i - n - 1)
        ELSE IF i = 2 * n + 1 THEN MainDiagonal(n)
        ELSE AntiDiagonal(n)]

CheckWinner_RowsOnly(b, n) ==
    LET scan == WinnerScan(n)
        hits == { i \in 1 .. n : CheckLine(b, n, scan[i]) # NONE }
    IN  IF hits = {} THEN NONE
        ELSE CheckLine(b, n, scan[CHOOSE i \in hits : \A j \in hits : i <= j])

\* Board.check_winner: the colour of the first complete line in scan order
CheckWinner(b, n) ==
    LET scan == WinnerScan(n)
        hits == { i \in DOMAIN scan : CheckLine(b, n, scan[i]) # NONE }
    IN  IF hits = {} THEN NONE
        ELSE CheckLine(b, n, scan[CHOOSE i \in hits : \A j \in hits : i <= j])

IsBoardFull_AnyCell(b, n) == \E cell \in Cells(n) : ~IsPositionEmpty(b, n, cell[1], cell[2])

\* Board.is_board_full
IsBoardFull(b, n) == \A cell \in Cells(n) : ~IsPositionEmpty(b, n, cell[1], cell[2])

\* the cells of Board.positions in the order of "for row ... for col ..."
RECURSIVE RowMajor(_, _)
RowMajor(n, i) ==
    IF i >= n * n THEN <<>> ELSE <<<<i \div n, i % n>>>> \o RowMajor(n, i + 1)

\* Board.copy, one cell: a new Piece for every piece of the stack, placed on
\* the new board as an existing piece, bottom first
RECURSIVE CopyStack(_, _, _, _, _)
CopyStack(new_board, n, cell, stack, i) ==
    IF i > Len(stack) THEN new_board
    ELSE CopyStack(PlacePiece(new_board, <<>>, n,
                              Piece(stack[i].color, stack[i].size, stack[i].id),
                              cell[1], cell[2], FALSE).board,
                   n, cell, stack, i + 1)

RECURSIVE CopyCells(_, _, _, _, _)
CopyCells(new_board, b, n, order, i) ==
    IF i > Len(order) THEN new_board
    ELSE CopyCells(CopyStack(new_board, n, order[i], b[order[i]], 1), b, n, order, i + 1)

BoardCopy_SamePositions(b, n) == [board |-> b, shares |-> Cells(n)]

\* Board.copy: the new board, and the cells whose BoardPosition object the
\* new board has in common with the old one: none, new_board = Board(size)
BoardCopy(b, n) ==
    [board |-> CopyCells(EmptyBoard(n), b, n, RowMajor(n, 0), 1), shares |-> {}]

\* two boards: a write to a cell of one of them shows on the other one iff
\* the two have the BoardPosition object of that cell in common
WriteCopy(both, new_board) ==
    [both EXCEPT !.copy = new_board,
                 !.board = [cell \in DOMAIN both.board |->
                              IF cell \in both.shares THEN new_board[cell]
                              ELSE both.board[cell]]]

WriteOriginal(both, new_board) ==
    [both EXCEPT !.board = new_board,
                 !.copy = [cell \in DOMAIN both.copy |->
                              IF cell \in both.shares THEN new_board[cell]
                              ELSE both.copy[cell]]]

GetValidMovesForNewPiece_AsExisting(b, n, color, piece_size) ==
    { cell \in Cells(n) :
        \/ IsPositionEmpty(b, n, cell[1], cell[2])
        \/ /\ GetTopPiece(b, n, cell[1], cell[2]) # NoPiece
           /\ GetTopPiece(b, n, cell[1], cell[2]).color # color
           /\ piece_size > GetTopPiece(b, n, cell[1], cell[2]).size }

\* Board.get_valid_moves_for_new_piece
GetValidMovesForNewPiece(b, n, color, piece_size) ==
    { cell \in Cells(n) :
        \/ IsPositionEmpty(b, n, cell[1], cell[2])
        \/ /\ GetTopPiece(b, n, cell[1], cell[2]) # NoPiece
           /\ GetTopPiece(b, n, cell[1], cell[2]).color # color
           /\ piece_size > GetTopPiece(b, n, cell[1], cell[2]).size
           /\ IsBlockingThreeInRow(b, n, cell[1], cell[2],
                                   GetTopPiece(b, n, cell[1], cell[2]).color) }

\* Board.get_valid_moves_for_existing_piece
GetValidMovesForExistingPiece(b, n, color, piece_size) ==
    { cell \in Cells(n) :
        \/ IsPositionEmpty(b, n, cell[1], cell[2])
        \/ /\ GetTopPiece(b, n, cell[1], cell[2]) # NoPiece
           /\ GetTopPiece(b, n, cell[1], cell[2]).color # color
           /\ piece_size > GetTopPiece(b, n, cell[1], cell[2]).size }

----------------------------------------------------------------------------
(* The board on its own: a board set up as the rule tests set theirs up,   *)
(* then one call of place_piece or remove_piece with any arguments.        *)

BOARD_SIZE == 4

\* the board sizes checked: the default size and the size below it
BoardSizes == {BOARD_SIZE - 1, BOARD_SIZE}

\* how many cells of a line a set-up fills: none, or all but MaxGap and more
MaxGap == 2

Fills(n) == {0} \cup ((IF n > MaxGap THEN n - MaxGap ELSE 1) .. n)

NoPositions == [id \in PieceIds |-> <<>>]

\* the piece of the given colour with the lowest id that is on no cell
NextFree(pos, color) ==
    LET free == { p \in InitPieces(color) : pos[p.id] = <<>> }
    IN  CHOOSE p \in free : \A q \in free : p.id <= q.id

\* New pieces of one colour on the first k free cells of a line, in line
\* order (test_rules.py, "Place 3 dark pieces in a row")
RECURSIVE FillLine(_, _, _, _, _, _)
FillLine(st, n, line, k, color, i) ==
    IF k = 0 \/ i > Len(line) THEN st
    ELSE IF ~IsPositionEmpty(st.board, n, line[i][1], line[i][2])
    THEN FillLine(st, n, line, k, color, i + 1)
    ELSE LET placed == PlacePiece(st.board, st.position, n, NextFree(st.position, color),
                                  line[i][1], line[i][2], TRUE)
         IN  FillLine([board |-> placed.board, position |-> placed.position],
                      n, line, k - 1, color, i + 1)

\* a MEDIUM piece of the other colour moved onto the first cell of a line
\* (test_rules.py, "Now move it to cover the light piece")
CoverFirst(st, n, line) ==
    LET top == GetTopPiece(st.board, n, line[1][1], line[1][2])
        free == { p \in InitPieces(OpponentOf(top.color)) :
                    p.size = MEDIUM /\ st.position[p.id] = <<>> }
        placed == PlacePiece(st.board, st.position, n,
                             CHOOSE p \in free : \A q \in free : p.id >= q.id,
                             line[1][1], line[1][2], FALSE)
    IN  IF top = NoPiece THEN st
        ELSE [board |-> placed.board, position |-> placed.position]

\* the set-up boards of size n
SetUps(n) ==
    LET scan == WinnerScan(n)
        start == [board |-> EmptyBoard(n), position |-> NoPositions]
    IN  { LET one == FillLine(start, n, scan[a], ka, ca, 1)
              two == FillLine(one, n, scan[b], kb, cb, 1)
          IN  IF cover THEN CoverFirst(two, n, scan[a]) ELSE two :
            <<a, b, ka, kb, ca, cb, cover>> \in
              { t \in (DOMAIN scan) \X (DOMAIN scan) \X Fills(n) \X Fills(n)
                        \X Colors \X Colors \X BOOLEAN :
                  /\ t[1] <= t[2]
                  /\ (t[1] = t[2] \/ t[4] = 0) => (t[4] = 0 /\ t[1] = t[2] /\ t[5] = t[6])
                  /\ t[7] => (t[4] = 0 /\ t[3] > 0) } }

\* no data file yet, or an empty list in it
EmptyFile == [records |-> <<>>, valid |-> TRUE]

\* nothing returned yet by run_batch_simulation
NoAnalysis ==
    [computed |-> FALSE, raised |-> FALSE,
     total_games |-> 0, light_wins |-> 0, dark_wins |-> 0, draws |-> 0]

\* no simulator in use
NoBatch ==
    /\ num_games = 0
    /\ parallel = FALSE
    /\ job = <<>>
    /\ games = <<>>
    /\ file = EmptyFile
    /\ results = <<>>
    /\ analysis = NoAnalysis
    /\ rng = 0
    /\ strategies = <<>>
    /\ matchup = 0

NoCall == [op |-> "none", piece |-> NoPiece, row |-> 0, col |-> 0, is_new |-> FALSE,
           ok |-> FALSE, removed |-> NoPiece, winner |-> NONE, color |-> NONE,
           piece_size |-> 0, cells |-> {}, copy |-> <<>>, shares |-> {},
           board |-> <<>>, position |-> <<>>]

NoTurn == [op |-> "none"]

InitBoard ==
    /\ size \in BoardSizes
    /\ \E st \in SetUps(size) :
          /\ board = st.board
          /\ position = st.position
    /\ current_player = LIGHT
    /\ game_over = FALSE
    /\ winner = NONE
    /\ turn_count = 0
    /\ max_turns = 0
    /\ moves = <<>>
    /\ move_counter = 0
    /\ last = NoCall
    /\ turn = NoTurn
    /\ NoBatch

gameVars == <<current_player, game_over, winner, turn_count, max_turns, moves,
              move_counter, turn>>

\* the coordinates a caller passes: every cell and one coordinate off each edge
Coords(n) == -1 .. n

\* the pieces a caller passes: of each colour and size, the piece with the
\* lowest id that is on no cell
CallPieces(pos) ==
    { p \in AllPieces :
        /\ pos[p.id] = <<>>
        /\ \A q \in AllPieces :
              (q.color = p.color /\ q.size = p.size /\ pos[q.id] = <<>>) => p.id <= q.id }

\* board.place_piece(piece, row, col, is_new_piece)
CallPlacePiece ==
    /\ last.op = "none"
    /\ \E p \in CallPieces(position), row \in Coords(size), col \in Coords(size), is_new \in BOOLEAN :
          LET placed == PlacePiece(board, position, size, p, row, col, is_new)
          IN  /\ board' = placed.board
              /\ position' = placed.position
              /\ last' = [op |-> "place", piece |-> p, row |-> row, col |-> col,
                          is_new |-> is_new, ok |-> placed.ok, removed |-> NoPiece,
                          winner |-> NONE, color |-> NONE, piece_size |-> 0,
                          cells |-> {}, copy |-> <<>>, shares |-> {},
                          board |-> board, position |-> position]
    /\ UNCHANGED <<size, gameVars, batchVars>>

\* board.remove_piece(row, col)
CallRemovePiece ==
    /\ last.op = "none"
    /\ \E row \in Coords(size), col \in Coords(size) :
          LET removed == RemovePiece(board, position, size, row, col)
          IN  /\ board' = removed.board
              /\ position' = removed.position
              /\ last' = [op |-> "remove", piece |-> NoPiece, row |-> row, col |-> col,
                          is_new |-> FALSE, ok |-> removed.piece # NoPiece,
                          removed |-> removed.piece, winner |-> NONE,
                          color |-> NONE, piece_size |-> 0, cells |-> {},
                          copy |-> <<>>, shares |-> {},
                          board |-> board, position |-> position]
    /\ UNCHANGED <<size, gameVars, batchVars>>

\* board.check_winner()
CallCheckWinner ==
    /\ last.op = "none"
    /\ last' = [NoCall EXCEPT !.op = "check_winner", !.winner = CheckWinner(board, size),
                              !.board = board, !.position = position]
    /\ UNCHANGED <<size, board, position, gameVars, batchVars>>

\* board.get_valid_moves_for_new_piece(color, piece_size)
CallGetValidMovesForNewPiece ==
    /\ last.op = "none"
    /\ \E color \in Colors, piece_size \in PieceSizes :
          last' = [NoCall EXCEPT !.op = "valid_moves_new", !.color = color,
                                 !.piece_size = piece_size,
                                 !.cells = GetValidMovesForNewPiece(board, size, color, piece_size),
                                 !.board = board, !.position = position]
    /\ UNCHANGED <<size, board, position, gameVars, batchVars>>

NextBoard ==
    \/ CallPlacePiece
    \/ CallRemovePiece
    \/ CallCheckWinner
    \/ CallGetValidMovesForNewPiece

SpecBoard == InitBoard /\ [][NextBoard]_vars

----------------------------------------------------------------------------
(* A board and its copy: a set-up board is copied, then one call of         *)
(* place_piece or remove_piece is made on the copy or on the board.         *)

\* the board and its copy, as the last call left them
Both == [board |-> board, copy |-> last.copy, shares |-> last.shares]

\* copy = board.copy()
CallCopy ==
    /\ last.op = "none"
    /\ last' = [NoCall EXCEPT !.op = "copy",
                              !.copy = BoardCopy(board, size).board,
                              !.shares = BoardCopy(board, size).shares,
                              !.board = board, !.position = position]
    /\ UNCHANGED <<size, board, position, gameVars, batchVars>>

\* the two boards after a call wrote new_board to one of them
CopyCallDone(op, p, row, col, ok, both, new_position) ==
    /\ board' = both.board
    /\ position' = new_position
    /\ last' = [last EXCEPT !.op = op, !.piece = p, !.row = row, !.col = col, !.ok = ok,
                            !.is_new = TRUE, !.copy = both.copy]

\* copy.place_piece(piece, row, col), the piece being one of a player
PlaceOnCopy ==
    /\ last.op = "copy"
    /\ \E p \in CallPieces(position), cell \in Cells(size) :
          CopyCallDone("copy.place", p, cell[1], cell[2],
                       PlacePiece(last.copy, position, size, p, cell[1], cell[2], TRUE).ok,
                       WriteCopy(Both, PlacePiece(last.copy, position, size, p,
                                                  cell[1], cell[2], TRUE).board),
                       PlacePiece(last.copy, position, size, p, cell[1], cell[2], TRUE).position)
    /\ UNCHANGED <<size, gameVars, batchVars>>

\* copy.remove_piece(row, col): the piece removed is a piece of the copy
RemoveFromCopy ==
    /\ last.op = "copy"
    /\ \E cell \in Cells(size) :
          CopyCallDone("copy.remove", NoPiece, cell[1], cell[2],
                       RemovePiece(last.copy, <<>>, size, cell[1], cell[2]).piece # NoPiece,
                       WriteCopy(Both, RemovePiece(last.copy, <<>>, size, cell[1], cell[2]).board),
                       position)
    /\ UNCHANGED <<size, gameVars, batchVars>>

\* board.place_piece(piece, row, col) after the copy was taken
PlaceOnOriginal ==
    /\ last.op = "copy"
    /\ \E p \in CallPieces(position), cell \in Cells(size) :
          CopyCallDone("board.place", p, cell[1], cell[2],
                       PlacePiece(board, position, size, p, cell[1], cell[2], TRUE).ok,
                       WriteOriginal(Both, PlacePiece(board, position, size, p,
                                                      cell[1], cell[2], TRUE).board),
                       PlacePiece(board, position, size, p, cell[1], cell[2], TRUE).position)
    /\ UNCHANGED <<size, gameVars, batchVars>>

\* board.remove_piece(row, col) after the copy was taken
RemoveFromOriginal ==
    /\ last.op = "copy"
    /\ \E cell \in Cells(size) :
          CopyCallDone("board.remove", NoPiece, cell[1], cell[2],
                       RemovePiece(board, position, size, cell[1], cell[2]).piece # NoPiece,
                       WriteOriginal(Both, RemovePiece(board, position, size,
                                                       cell[1], cell[2]).board),
                       RemovePiece(board, position, size, cell[1], cell[2]).position)
    /\ UNCHANGED <<size, gameVars, batchVars>>

NextCopy ==
    \/ CallCopy
    \/ PlaceOnCopy
    \/ RemoveFromCopy
    \/ PlaceOnOriginal
    \/ RemoveFromOriginal

SpecCopy == InitBoard /\ [][NextCopy]_vars

----------------------------------------------------------------------------
(* game.py: GobbletGame.  A game is the record g of its fields; a move is   *)
(* the pair (move_type, move_data) a strategy returns, flattened into one   *)
(* record, and kind "raise" stands for a choose_move that raises.           *)

NoneId == NoPiece.id

\* GobbletGame.__init__
NewGame(n) ==
    [board |-> EmptyBoard(n), position |-> NoPositions, current_player |-> LIGHT,
     game_over |-> FALSE, winner |-> NONE, turn_count |-> 0,
     moves |-> <<>>, move_counter |-> 0]

RecordMove_NumbersFromZero(g, player_color, move_type, piece, from_position, to_position, captured_piece) ==
    [g EXCEPT !.move_counter = @ + 1,
              !.moves = Append(@, [player_color |-> player_color,
                                   move_type |-> move_type,
                                   piece_id |-> piece.id,
                                   piece_size |-> piece.size,
                                   from_position |-> from_position,
                                   to_position |-> to_position,
                                   captured_piece_id |->
                                       IF captured_piece # NoPiece THEN captured_piece.id
                                       ELSE NoneId,
                                   move_number |-> g.move_counter])]

\* MoveTracker.record_move
RecordMove(g, player_color, move_type, piece, from_position, to_position, captured_piece) ==
    [g EXCEPT !.move_counter = @ + 1,
              !.moves = Append(@, [player_color |-> player_color,
                                   move_type |-> move_type,
                                   piece_id |-> piece.id,
                                   piece_size |-> piece.size,
                                   from_position |-> from_position,
                                   to_position |-> to_position,
                                   captured_piece_id |->
                                       IF captured_piece # NoPiece THEN captured_piece.id
                                       ELSE NoneId,
                                   move_number |-> g.move_counter + 1])]

\* _execute_move returns False and leaves the game as g
Fails(g) == [ok |-> FALSE, raised |-> FALSE, g |-> g]

\* an exception leaves _execute_move, with the game as g
Escapes(g) == [ok |-> FALSE, raised |-> TRUE, g |-> g]

\* _execute_move returns True and leaves the game as g
Applies(g) == [ok |-> TRUE, raised |-> FALSE, g |-> g]

\* row, col = position: raises unless the value has exactly two elements
Unpacks(value) == Len(value) = 2

\* the end of _execute_place_move: the move is recorded if the piece was placed
PlaceMoveDone(g, piece, pos, captured_piece, placed) ==
    IF placed.ok
    THEN Applies(RecordMove([g EXCEPT !.board = placed.board, !.position = placed.position],
                           g.current_player, "place", piece, <<>>, pos, captured_piece))
    ELSE Fails(g)

\* GobbletGame._execute_place_move: [ok, g]
ExecutePlaceMove(g, n, data) ==
    IF ~data.is_mapping THEN Escapes(g)
    ELSE IF data.piece = NoPiece \/ data.position = <<>> THEN Fails(g)
    ELSE IF ~InPieces(data.piece, InitPieces(g.current_player)) THEN Fails(g)
    ELSE IF ~data.fresh /\ g.position[data.piece.id] # <<>> THEN Fails(g)
    ELSE IF ~Unpacks(data.position) THEN Escapes(g)
    ELSE IF data.fresh
    THEN PlaceMoveDone(g, data.piece, data.position,
                       GetTopPiece(g.board, n, data.position[1], data.position[2]),
                       PlaceOtherPiece(g.board, g.position, n, data.piece,
                                       data.position[1], data.position[2], TRUE))
    ELSE PlaceMoveDone(g, data.piece, data.position,
                       GetTopPiece(g.board, n, data.position[1], data.position[2]),
                       PlacePiece(g.board, g.position, n, data.piece,
                                  data.position[1], data.position[2], TRUE))

\* a failed _execute_piece_move after its attempt to put the piece back
PutBack(g, back) ==
    Fails([g EXCEPT !.board = back.board, !.position = back.position])

\* _execute_piece_move after place_piece at the destination: the move is
\* recorded, or the piece is put back on its origin with place_piece
PieceMovePlaced(g, n, piece, from, to, captured_piece, removed, placed) ==
    IF placed.ok
    THEN Applies(RecordMove([g EXCEPT !.board = placed.board, !.position = placed.position],
                            g.current_player, "move", piece, from, to, captured_piece))
    ELSE PutBack(g, PlacePiece(removed.board, removed.position, n, piece,
                               from[1], from[2], TRUE))

\* _execute_piece_move after remove_piece at the origin
PieceMoveRemoved(g, n, piece, from, to, captured_piece, removed) ==
    IF removed.piece.id # piece.id
    THEN IF removed.piece # NoPiece
         THEN PutBack(g, PlacePiece(removed.board, removed.position, n, removed.piece,
                                    from[1], from[2], TRUE))
         ELSE PutBack(g, removed)
    ELSE PieceMovePlaced(g, n, piece, from, to, captured_piece, removed,
                         PlacePiece(removed.board, removed.position, n, piece,
                                    to[1], to[2], TRUE))

\* GobbletGame._execute_piece_move: [ok, g]
ExecutePieceMove(g, n, data) ==
    IF ~data.is_mapping THEN Escapes(g)
    ELSE IF data.piece = NoPiece \/ data.from_position = <<>> \/ data.to_position = <<>>
    THEN Fails(g)
    ELSE IF ~InPieces(data.piece, InitPieces(g.current_player)) THEN Fails(g)
    ELSE IF ~Unpacks(data.from_position) THEN Escapes(g)
    ELSE IF GetTopPiece(g.board, n, data.from_position[1], data.from_position[2]).id
              # data.piece.id
    THEN Fails(g)
    ELSE IF ~Unpacks(data.to_position) THEN Escapes(g)
    ELSE PieceMoveRemoved(g, n, data.piece, data.from_position, data.to_position,
                          GetTopPiece(g.board, n, data.to_position[1], data.to_position[2]),
                          RemovePiece(g.board, g.position, n,
                                      data.from_position[1], data.from_position[2]))

\* GobbletGame._execute_move
ExecuteMove(g, n, choice) ==
    IF choice.move_type = "place" THEN ExecutePlaceMove(g, n, choice)
    ELSE IF choice.move_type = "move" THEN ExecutePieceMove(g, n, choice)
    ELSE Fails(g)

GetOpponentColor_Self(g) == g.current_player

\* GobbletGame._get_opponent_color
GetOpponentColor(g) == IF g.current_player = LIGHT THEN DARK ELSE LIGHT

SwitchPlayer_Stay(g) == g

\* GobbletGame._switch_player
SwitchPlayer(g) ==
    [g EXCEPT !.current_player = IF g.current_player = LIGHT THEN DARK ELSE LIGHT]

\* GobbletGame._end_game
EndGame(g, w) == [g EXCEPT !.game_over = TRUE, !.winner = w]

ExceedsMaxTurns_OneLate(count, cap) == count > cap + 1

\* the draw condition of play_turn: self.turn_count > self.max_turns
ExceedsMaxTurns(count, cap) == count > cap

TurnResult(g, ret, outcome, asked, applied) ==
    [g |-> g, ret |-> ret, outcome |-> outcome, asked |-> asked, applied |-> applied,
     escaped |-> FALSE]

\* play_turn does not return: the exception of _execute_move leaves it
TurnEscaped(g) ==
    [g |-> g, ret |-> FALSE, outcome |-> "escaped", asked |-> 1, applied |-> FALSE,
     escaped |-> TRUE]

\* play_turn after a move that applied: a winner, a full board, or the next player
TurnChecked(g, n, w) ==
    IF w # NONE THEN TurnResult(EndGame(g, w), FALSE, "won", 1, TRUE)
    ELSE IF IsBoardFull(g.board, n) THEN TurnResult(EndGame(g, NONE), FALSE, "full", 1, TRUE)
    ELSE TurnResult(SwitchPlayer(g), TRUE, "continues", 1, TRUE)

\* play_turn after _execute_move: a move that did not apply loses the game
TurnExecuted(n, done) ==
    IF done.raised THEN TurnEscaped(done.g)
    ELSE IF ~done.ok
    THEN TurnResult(EndGame(done.g, GetOpponentColor(done.g)), FALSE, "rejected", 1, FALSE)
    ELSE TurnChecked(done.g, n, CheckWinner(done.g.board, n))

\* play_turn after self.turn_count += 1
TurnCounted(g, n, cap, choice) ==
    IF ExceedsMaxTurns(g.turn_count, cap)
    THEN TurnResult(EndGame(g, NONE), FALSE, "cap", 0, FALSE)
    ELSE IF choice.kind = "raise"
    THEN TurnResult(EndGame(g, GetOpponentColor(g)), FALSE, "raised", 1, FALSE)
    ELSE TurnExecuted(n, ExecuteMove(g, n, choice))

PlayTurn_IgnoresGameOver(g, n, cap, choice) ==
    TurnCounted([g EXCEPT !.turn_count = @ + 1], n, cap, choice)

\* GobbletGame.play_turn: the game after the call, the value returned, how the
\* turn went, how often choose_move was called and whether the move applied
PlayTurn(g, n, cap, choice) ==
    IF g.game_over THEN TurnResult(g, FALSE, "finished", 0, FALSE)
    ELSE TurnCounted([g EXCEPT !.turn_count = @ + 1], n, cap, choice)

----------------------------------------------------------------------------
(* The game: a game played from construction through an opening, then       *)
(* play_turn called with whatever the active side's strategy may return.    *)

NoChoice == [kind |-> "none", move_type |-> "none", is_mapping |-> TRUE, piece |-> NoPiece,
             fresh |-> FALSE,
             position |-> <<>>, from_position |-> <<>>, to_position |-> <<>>]

Raise == [NoChoice EXCEPT !.kind = "raise"]

\* ("place", {"piece": piece, "position": pos})
PlaceChoice(piece, pos) ==
    [NoChoice EXCEPT !.kind = "move", !.move_type = "place", !.piece = piece,
                     !.position = pos]

\* ("move", {"piece": piece, "from_position": from, "to_position": to})
MoveChoice(piece, from, to) ==
    [NoChoice EXCEPT !.kind = "move", !.move_type = "move", !.piece = piece,
                     !.from_position = from, !.to_position = to]

\* a move of a type the game does not know
OtherChoice == [NoChoice EXCEPT !.kind = "move", !.move_type = "pass"]

\* (move_type, move_data) with move data that is no mapping, such as None
NotMappingChoice(move_type) ==
    [NoChoice EXCEPT !.kind = "move", !.move_type = move_type, !.is_mapping = FALSE]

\* values in the place of a coordinate that are not (row, col)
NotCoordinates == {<<0>>, <<0, 0, 0>>}

\* the k-th piece (from 0) of a colour's pieces, in the order of Player.pieces
NthPiece(color, k) ==
    CHOOSE p \in InitPieces(color) : p.id = FirstPieceId(color) + k

\* light and dark place their pieces in id order, in turn, on the cells given
AlternatePlacing(lightCells, darkCells) ==
    [i \in 1 .. (Len(lightCells) + Len(darkCells)) |->
        IF i % 2 = 1 THEN PlaceChoice(NthPiece(LIGHT, (i - 1) \div 2), lightCells[(i + 1) \div 2])
        ELSE PlaceChoice(NthPiece(DARK, (i - 2) \div 2), darkCells[i \div 2])]

\* a large light piece and a small dark piece on the board
OpeningTwoPieces ==
    <<PlaceChoice(NthPiece(LIGHT, 6), <<0, 0>>), PlaceChoice(NthPiece(DARK, 0), <<1, 1>>)>>

\* light has three on the main diagonal and is to move
OpeningThreeOnDiagonal ==
    AlternatePlacing(<<<<0, 0>>, <<1, 1>>, <<2, 2>>>>, <<<<0, 1>>, <<0, 2>>, <<3, 0>>>>)

\* light had three in row 0, dark covered the first of them with a New medium
\* piece, light then took the fourth cell of the row; dark is to move
OpeningCoveredThree ==
    AlternatePlacing(<<<<0, 0>>, <<0, 1>>, <<0, 2>>>>, <<<<1, 0>>, <<2, 1>>>>)
      \o <<PlaceChoice(NthPiece(DARK, 3), <<0, 0>>), PlaceChoice(NthPiece(LIGHT, 3), <<0, 3>>)>>

\* fifteen cells taken, no line complete, dark is to move
OpeningOneCellFree ==
    AlternatePlacing(
        <<<<0, 2>>, <<0, 3>>, <<1, 0>>, <<1, 1>>, <<2, 2>>, <<2, 3>>, <<3, 0>>, <<3, 1>>>>,
        <<<<0, 0>>, <<0, 1>>, <<1, 2>>, <<1, 3>>, <<2, 0>>, <<2, 1>>, <<3, 2>>>>)

Openings ==
    {<<>>, OpeningTwoPieces, OpeningThreeOnDiagonal, OpeningCoveredThree, OpeningOneCellFree}

\* how many turns past its opening a game may run before its cap ends it
MaxMoreTurns == 1

RECURSIVE Replay(_, _, _, _, _)
Replay(g, n, cap, opening, i) ==
    IF i > Len(opening) THEN g
    ELSE CHOOSE end \in { Replay(next, n, cap, opening, i + 1) :
                             next \in {PlayTurn(g, n, cap, opening[i]).g} } : TRUE

\* the game as play_turn finds it
Game ==
    [board |-> board, position |-> position, current_player |-> current_player,
     game_over |-> game_over, winner |-> winner, turn_count |-> turn_count,
     moves |-> moves, move_counter |-> move_counter]

\* the game g, played through an opening under the cap, waits for its next turn
GameStarts(g, cap, played) ==
    /\ Len(g.moves) = played
    /\ ~g.game_over
    /\ max_turns = cap
    /\ board = g.board
    /\ position = g.position
    /\ current_player = g.current_player
    /\ game_over = g.game_over
    /\ winner = g.winner
    /\ turn_count = g.turn_count
    /\ moves = g.moves
    /\ move_counter = g.move_counter
    /\ turn = [op |-> "none", choice |-> NoChoice, ret |-> TRUE,
               outcome |-> "none", asked |-> 0, applied |-> FALSE, escaped |-> FALSE,
               calls |-> played, before |-> g]

InitGame ==
    /\ size = BOARD_SIZE
    /\ \E opening \in Openings :
          GameStarts(Replay(NewGame(size), size, Len(opening) + MaxMoreTurns, opening, 1),
                     Len(opening) + MaxMoreTurns, Len(opening))
    /\ last = NoCall
    /\ NoBatch

\* the pieces of the game that are in some stack of the board
OnBoard(b, n) ==
    { p \in AllPieces :
        \E cell \in Cells(n) : \E i \in 1 .. Len(b[cell]) : b[cell][i].id = p.id }

\* the cells whose stack holds the piece
WhereOnBoard(b, n, p) ==
    { cell \in Cells(n) : \E i \in 1 .. Len(b[cell]) : b[cell][i].id = p.id }

\* the pieces a strategy may name: every piece on the board, of either colour,
\* and of each colour and size the reserve piece with the lowest id
OfferedPieces(g, n) == OnBoard(g.board, n) \cup CallPieces(g.position)

\* the coordinates a strategy may name: every cell and one off each of two edges
OfferedCells(n) == Cells(n) \cup {<<-1, 0>>, <<0, n>>}

\* Player.get_available_pieces
GetAvailablePieces(pos, color) == { p \in InitPieces(color) : pos[p.id] = <<>> }

\* Player.get_pieces_on_board: the pairs (piece, cell) of the colour's top pieces
GetPiecesOnBoard(b, n, color) ==
    { t \in InitPieces(color) \X Cells(n) :
        GetTopPiece(b, n, t[2][1], t[2][2]).id = t[1].id }

\* possible_moves of RandomPlayer.choose_move
RandomPossibleMoves(g, n) ==
    { PlaceChoice(t[1], t[2]) :
        t \in { u \in GetAvailablePieces(g.position, g.current_player) \X Cells(n) :
                  u[2] \in GetValidMovesForNewPiece(g.board, n, g.current_player,
                                                    u[1].size) } }
      \cup { MoveChoice(t[1][1], t[1][2], t[2]) :
               t \in { u \in GetPiecesOnBoard(g.board, n, g.current_player) \X Cells(n) :
                         /\ u[2] \in GetValidMovesForExistingPiece(
                                         g.board, n, g.current_player, u[1][1].size)
                         /\ u[2] # u[1][2] } }

\* RandomPlayer.choose_move: the moves random.choice may return
RandomChooseMove(g, n) ==
    IF RandomPossibleMoves(g, n) = {} THEN {PlaceChoice(NoPiece, <<>>)}
    ELSE RandomPossibleMoves(g, n)

\* what choose_move may do: raise, or return a move of any type
Choices(g, n) ==
    {Raise, OtherChoice}
      \cup RandomChooseMove(g, n)
      \cup { NotMappingChoice(move_type) : move_type \in {"place", "move", "pass"} }
      \cup { PlaceChoice(p, pos) :
               p \in OfferedPieces(g, n) \cup {NoPiece},
               pos \in OfferedCells(n) \cup {<<>>} \cup NotCoordinates }
      \cup { MoveChoice(p, from, to) :
               p \in OfferedPieces(g, n), from \in NotCoordinates, to \in {<<0, 0>>} }
      \cup { MoveChoice(p, from, to) :
               <<p, from, to>> \in
                 { t \in OfferedPieces(g, n) \X Cells(n)
                          \X (OfferedCells(n) \cup {<<>>} \cup NotCoordinates) :
                     t[2] \in WhereOnBoard(g.board, n, t[1]) \cup {<<0, 0>>} } }

\* the game after a call of play_turn that went as r says
TurnEnds(choice, r) ==
    /\ board' = r.g.board
    /\ position' = r.g.position
    /\ current_player' = r.g.current_player
    /\ game_over' = r.g.game_over
    /\ winner' = r.g.winner
    /\ turn_count' = r.g.turn_count
    /\ moves' = r.g.moves
    /\ move_counter' = r.g.move_counter
    /\ turn' = [op |-> "play_turn", choice |-> choice, ret |-> r.ret,
                outcome |-> r.outcome, asked |-> r.asked, applied |-> r.applied,
                escaped |-> r.escaped,
                calls |-> IF game_over THEN turn.calls ELSE turn.calls + 1,
                before |-> Game]
    /\ UNCHANGED <<size, max_turns, last, batchVars>>

\* one call of play_turn with the given choice of the active side's strategy
DoPlayTurn(choice) == TurnEnds(choice, PlayTurn(Game, size, max_turns, choice))

\* play_turn() on a game that is over
PlayTurnOnFinishedGame ==
    /\ game_over
    /\ DoPlayTurn(NoChoice)

\* play_turn() of play_game's loop when this turn exceeds the cap: nobody is asked
PlayTurnAtCap ==
    /\ ~game_over
    /\ ExceedsMaxTurns(turn_count + 1, max_turns)
    /\ DoPlayTurn(NoChoice)

\* play_turn() of play_game's loop: the active side's strategy is asked
PlayTurnAsking ==
    /\ ~game_over
    /\ ~ExceedsMaxTurns(turn_count + 1, max_turns)
    /\ \E choice \in Choices(Game, size) : DoPlayTurn(choice)

NextGame == PlayTurnOnFinishedGame \/ PlayTurnAtCap \/ PlayTurnAsking

SpecGame == InitGame /\ [][NextGame]_vars

\* dark has row 0 with its first piece under a medium light piece, which
\* light placed when dark had three there; light has three in row 1 and is
\* to move
OpeningCoveredRow ==
    AlternatePlacing(<<<<1, 0>>, <<1, 1>>, <<1, 2>>>>, <<<<0, 0>>, <<0, 1>>, <<0, 2>>>>)
      \o <<PlaceChoice(NthPiece(LIGHT, 3), <<0, 0>>), PlaceChoice(NthPiece(DARK, 3), <<0, 3>>)>>

\* games in which a piece that covers a piece of the other side may move on
CoveringOpenings == {OpeningCoveredRow, OpeningCoveredThree}

InitCovering ==
    /\ size = BOARD_SIZE
    /\ \E opening \in CoveringOpenings :
          GameStarts(Replay(NewGame(size), size, Len(opening) + MaxMoreTurns, opening, 1),
                     Len(opening) + MaxMoreTurns, Len(opening))
    /\ last = NoCall
    /\ NoBatch

SpecCovering == InitCovering /\ [][NextGame]_vars

----------------------------------------------------------------------------
(* player.py: GreedyPlayer and DefensivePlayer.  choose_move is given the   *)
(* board of the game; what it works on is the pair st = [board, position]:  *)
(* the board of the game and the position fields of the players' pieces,    *)
(* both as the statements executed so far have left them.                   *)

\* the pieces of a set in the order of Player.pieces, which is by id
RECURSIVE InIdOrder(_)
InIdOrder(pieces) ==
    IF pieces = {} THEN <<>>
    ELSE <<CHOOSE p \in pieces : \A q \in pieces : p.id <= q.id>>
           \o InIdOrder(pieces \ {CHOOSE p \in pieces : \A q \in pieces : p.id <= q.id})

\* the list get_available_pieces() returns
AvailablePieces(pos, color) == InIdOrder(GetAvailablePieces(pos, color))

\* the list get_pieces_on_board(board) returns: (top piece, cell), row by row
RECURSIVE PiecesOnBoard(_, _, _, _)
PiecesOnBoard(b, color, order, i) ==
    IF i > Len(order) THEN <<>>
    ELSE (IF InPieces(TopPiece(b[order[i]]), InitPieces(color))
          THEN <<<<TopPiece(b[order[i]]), order[i]>>>>
          ELSE <<>>) \o PiecesOnBoard(b, color, order, i + 1)

TestBoard_IsBoard(b, n) == [board |-> b, shares |-> Cells(n)]

\* test_board = board.copy()
TestBoard(b, n) == BoardCopy(b, n)

Paired(b, test_board) ==
    [board |-> b, copy |-> test_board.board, shares |-> test_board.shares]

\* the board of the game and the test board made of it
WithTestBoard(st, n) == Paired(st.board, TestBoard(st.board, n))

\* test_board.remove_piece(row, col): the piece removed is one of the copy
TestRemoved(both, n, cell) ==
    WriteCopy(both, RemovePiece(both.copy, <<>>, n, cell[1], cell[2]).board)

\* what a hypothetical move has shown, and what it has left behind
Tested(yes, both, new_position) ==
    [yes |-> yes, st |-> [board |-> both.board, position |-> new_position]]

\* _would_win from test_board.place_piece(piece, row, col) on: the piece is
\* the player's own object, and its position field is written
WouldWinPlaced(both, n, color, placed) ==
    Tested(placed.ok /\ CheckWinner(WriteCopy(both, placed.board).copy, n) = color,
           WriteCopy(both, placed.board), placed.position)

WouldWinPlacing(both, pos, n, color, piece, cell) ==
    WouldWinPlaced(both, n, color,
                   PlacePiece(both.copy, pos, n, piece, cell[1], cell[2], TRUE))

\* GreedyPlayer._would_win
WouldWin(st, n, color, piece, cell) ==
    IF st.position[piece.id] # <<>>
    THEN WouldWinPlacing(TestRemoved(WithTestBoard(st, n), n, st.position[piece.id]),
                         st.position, n, color, piece, cell)
    ELSE WouldWinPlacing(WithTestBoard(st, n), st.position, n, color, piece, cell)

WouldBlockWinPlaced(both, placed) ==
    Tested(placed.ok, WriteCopy(both, placed.board), placed.position)

WouldBlockWinPlacing(both, pos, n, piece, cell) ==
    WouldBlockWinPlaced(both, PlacePiece(both.copy, pos, n, piece, cell[1], cell[2], TRUE))

\* GreedyPlayer._would_block_win
WouldBlockWin(st, n, opponent_color, piece, cell) ==
    IF /\ GetTopPiece(WithTestBoard(st, n).copy, n, cell[1], cell[2]) # NoPiece
       /\ GetTopPiece(WithTestBoard(st, n).copy, n, cell[1], cell[2]).color # opponent_color
    THEN Tested(FALSE, WithTestBoard(st, n), st.position)
    ELSE IF st.position[piece.id] # <<>>
    THEN WouldBlockWinPlacing(TestRemoved(WithTestBoard(st, n), n, st.position[piece.id]),
                              st.position, n, piece, cell)
    ELSE WouldBlockWinPlacing(WithTestBoard(st, n), st.position, n, piece, cell)

\* the test DefensivePlayer._find_winning_move makes: a reserve piece is
\* placed on a copy, a piece of the board after the copy's top piece of its
\* cell was removed
DefensiveWouldWin(st, n, color, piece, from, cell) ==
    IF from # <<>>
    THEN WouldWinPlacing(TestRemoved(WithTestBoard(st, n), n, from),
                         st.position, n, color, piece, cell)
    ELSE WouldWinPlacing(WithTestBoard(st, n), st.position, n, color, piece, cell)

\* the test a search makes of a piece, from its cell if it has one, on a cell
Would(goal, st, n, color, piece, from, cell) ==
    IF goal = "win" THEN WouldWin(st, n, color, piece, cell)
    ELSE IF goal = "block" THEN WouldBlockWin(st, n, OpponentOf(color), piece, cell)
    ELSE DefensiveWouldWin(st, n, color, piece, from, cell)

NotFound(st) == [found |-> FALSE, choice |-> NoChoice, st |-> st]

Found(choice, st) == [found |-> TRUE, choice |-> choice, st |-> st]

\* for piece in available_pieces: ... return ("place", ...)
RECURSIVE TryPlacing(_, _, _, _, _, _, _)
RECURSIVE TriedPlacing(_, _, _, _, _, _, _)
TryPlacing(goal, st, n, color, cell, pieces, i) ==
    IF i > Len(pieces) THEN NotFound(st)
    ELSE TriedPlacing(goal, n, color, cell, pieces, i,
                      Would(goal, st, n, color, pieces[i], <<>>, cell))

TriedPlacing(goal, n, color, cell, pieces, i, tested) ==
    IF tested.yes THEN Found(PlaceChoice(pieces[i], cell), tested.st)
    ELSE TryPlacing(goal, tested.st, n, color, cell, pieces, i + 1)

\* for piece, current_pos in pieces_on_board: ... return ("move", ...)
RECURSIVE TryMoving(_, _, _, _, _, _, _)
RECURSIVE TriedMoving(_, _, _, _, _, _, _)
TryMoving(goal, st, n, color, cell, on_board, i) ==
    IF i > Len(on_board) THEN NotFound(st)
    ELSE TriedMoving(goal, n, color, cell, on_board, i,
                     Would(goal, st, n, color, on_board[i][1], on_board[i][2], cell))

TriedMoving(goal, n, color, cell, on_board, i, tested) ==
    IF tested.yes THEN Found(MoveChoice(on_board[i][1], on_board[i][2], cell), tested.st)
    ELSE TryMoving(goal, tested.st, n, color, cell, on_board, i + 1)

\* one cell of the search: the reserve pieces, then the pieces on the board
PlacingTried(goal, n, color, cell, placing) ==
    IF placing.found THEN placing
    ELSE TryMoving(goal, placing.st, n, color, cell,
                   PiecesOnBoard(placing.st.board, color, RowMajor(n, 0), 1), 1)

\* GreedyPlayer._find_move_for_color and _find_blocking_move, and
\* DefensivePlayer._find_winning_move: the cells row by row, and on each the
\* first piece that passes the test
RECURSIVE FindMove(_, _, _, _, _, _)
RECURSIVE CellTried(_, _, _, _, _, _)
FindMove(goal, st, n, color, order, i) ==
    IF i > Len(order) THEN NotFound(st)
    ELSE CellTried(goal, n, color, order, i,
                   PlacingTried(goal, n, color, order[i],
                                TryPlacing(goal, st, n, color, order[i],
                                           AvailablePieces(st.position, color), 1)))

CellTried(goal, n, color, order, i, tried) ==
    IF tried.found THEN tried
    ELSE FindMove(goal, tried.st, n, color, order, i + 1)

\* the cells at a Manhattan distance from (center, center), row by row
RECURSIVE AtDistance(_, _, _, _)
AtDistance(n, distance, order, i) ==
    IF i > Len(order) THEN <<>>
    ELSE (IF (IF order[i][1] >= n \div 2 THEN order[i][1] - n \div 2
                                         ELSE n \div 2 - order[i][1])
              + (IF order[i][2] >= n \div 2 THEN order[i][2] - n \div 2
                                            ELSE n \div 2 - order[i][2]) = distance
          THEN <<order[i]>> ELSE <<>>) \o AtDistance(n, distance, order, i + 1)

\* GreedyPlayer._get_center_positions: for distance in range(center + 1)
RECURSIVE GetCenterPositions(_, _)
GetCenterPositions(n, distance) ==
    IF distance > n \div 2 THEN <<>>
    ELSE AtDistance(n, distance, RowMajor(n, 0), 1) \o GetCenterPositions(n, distance + 1)

\* available_pieces.sort(key=lambda p: p.size.value, reverse=True): the
\* sort keeps the order of the pieces of one size
LargestFirst(pieces) ==
    InIdOrder({ p \in pieces : p.size = LARGE })
      \o InIdOrder({ p \in pieces : p.size = MEDIUM })
      \o InIdOrder({ p \in pieces : p.size = SMALL })

\* the first cell of a list that is in a set; <<>> if there is none
RECURSIVE FirstIn(_, _, _)
FirstIn(order, cells, i) ==
    IF i > Len(order) THEN <<>>
    ELSE IF order[i] \in cells THEN order[i]
    ELSE FirstIn(order, cells, i + 1)

\* the new RandomPlayer(self.color) a strategy falls back to: its pieces are
\* new objects, all of them off the board, and random.choice picks the move
FallBackToRandom(st, n, color) ==
    { IF c.move_type = "place" /\ c.piece # NoPiece THEN [c EXCEPT !.fresh = TRUE] ELSE c :
        c \in RandomChooseMove([board |-> st.board, position |-> NoPositions,
                                current_player |-> color], n) }

\* _make_strategic_move: the first piece, largest first, that has a valid
\* cell goes to its first valid centre cell, or else to its first valid cell
RECURSIVE StrategicPlace(_, _, _, _, _)
StrategicPlace(st, n, color, pieces, i) ==
    IF i > Len(pieces) THEN FallBackToRandom(st, n, color)
    ELSE IF GetValidMovesForNewPiece(st.board, n, color, pieces[i].size) = {}
    THEN StrategicPlace(st, n, color, pieces, i + 1)
    ELSE IF FirstIn(GetCenterPositions(n, 0),
                    GetValidMovesForNewPiece(st.board, n, color, pieces[i].size), 1) # <<>>
    THEN {PlaceChoice(pieces[i],
                      FirstIn(GetCenterPositions(n, 0),
                              GetValidMovesForNewPiece(st.board, n, color, pieces[i].size), 1))}
    ELSE {PlaceChoice(pieces[i],
                      FirstIn(RowMajor(n, 0),
                              GetValidMovesForNewPiece(st.board, n, color, pieces[i].size), 1))}

\* GreedyPlayer._make_strategic_move: the moves it may return
MakeStrategicMove(st, n, color) ==
    StrategicPlace(st, n, color, LargestFirst(GetAvailablePieces(st.position, color)), 1)

\* what choose_move returns and what it leaves behind
Chosen(choices, st) == { [choice |-> c, st |-> st] : c \in choices }

GreedyBlocked(n, color, blocking) ==
    IF blocking.found THEN Chosen({blocking.choice}, blocking.st)
    ELSE Chosen(MakeStrategicMove(blocking.st, n, color), blocking.st)

GreedyWon(n, color, winning) ==
    IF winning.found THEN Chosen({winning.choice}, winning.st)
    ELSE GreedyBlocked(n, color,
                       FindMove("block", winning.st, n, color, RowMajor(n, 0), 1))

\* GreedyPlayer.choose_move
GreedyChooseMove(st, n, color) ==
    GreedyWon(n, color, FindMove("win", st, n, color, RowMajor(n, 0), 1))

\* DefensivePlayer._opponent_could_win_here: a piece of the opponent's colour
\* of some size, put on a copy as a new piece, wins; a piece that does not
\* is taken off the copy again
OpponentCouldWinHere(b, n, cell, opponent_color) ==
    \E s \in PieceSizes :
        /\ PlacePiece(TestBoard(b, n).board, <<>>, n, Piece(opponent_color, s, -1),
                      cell[1], cell[2], TRUE).ok
        /\ CheckWinner(PlacePiece(TestBoard(b, n).board, <<>>, n,
                                  Piece(opponent_color, s, -1),
                                  cell[1], cell[2], TRUE).board, n) = opponent_color

\* existing_piece is None or piece.can_cover(existing_piece)
FitsOn(b, n, piece, cell) ==
    \/ GetTopPiece(b, n, cell[1], cell[2]) = NoPiece
    \/ CanCover(piece, GetTopPiece(b, n, cell[1], cell[2]))

\* the first piece of a list that fits on a cell; NoPiece if there is none
RECURSIVE FirstFitting(_, _, _, _, _)
FirstFitting(b, n, cell, pieces, i) ==
    IF i > Len(pieces) THEN NoPiece
    ELSE IF FitsOn(b, n, pieces[i], cell) THEN pieces[i]
    ELSE FirstFitting(b, n, cell, pieces, i + 1)

\* DefensivePlayer._find_blocking_move
RECURSIVE DefensiveFindBlockingMove(_, _, _, _, _)
DefensiveFindBlockingMove(st, n, color, order, i) ==
    IF i > Len(order) THEN NotFound(st)
    ELSE IF /\ OpponentCouldWinHere(st.board, n, order[i], OpponentOf(color))
            /\ FirstFitting(st.board, n, order[i],
                            AvailablePieces(st.position, color), 1) # NoPiece
    THEN Found(PlaceChoice(FirstFitting(st.board, n, order[i],
                                        AvailablePieces(st.position, color), 1),
                           order[i]), st)
    ELSE DefensiveFindBlockingMove(st, n, color, order, i + 1)

\* a list without the elements that are in it a second time
RECURSIVE Unique(_, _)
Unique(list, i) ==
    IF i > Len(list) THEN <<>>
    ELSE (IF \E k \in 1 .. (i - 1) : list[k] = list[i] THEN <<>> ELSE <<list[i]>>)
           \o Unique(list, i + 1)

\* positions.extend([(0, i), (size-1, i), (i, 0), (i, size-1)]) for i in range(size)
RECURSIVE Edges(_, _)
Edges(n, i) ==
    IF i >= n THEN <<>>
    ELSE <<<<0, i>>, <<n - 1, i>>, <<i, 0>>, <<i, n - 1>>>> \o Edges(n, i + 1)

\* DefensivePlayer._get_strategic_positions: corners, centre, edges
GetStrategicPositions(n) ==
    Unique(<<<<0, 0>>, <<0, n - 1>>, <<n - 1, 0>>, <<n - 1, n - 1>>>>
             \o (IF n % 2 = 1 THEN <<<<n \div 2, n \div 2>>>>
                 ELSE <<<<n \div 2 - 1, n \div 2 - 1>>, <<n \div 2 - 1, n \div 2>>,
                        <<n \div 2, n \div 2 - 1>>, <<n \div 2, n \div 2>>>>)
             \o Edges(n, 0), 1)

\* the first cell of a list the piece fits on; <<>> if there is none
RECURSIVE FirstFitted(_, _, _, _, _)
FirstFitted(b, n, piece, order, i) ==
    IF i > Len(order) THEN <<>>
    ELSE IF FitsOn(b, n, piece, order[i]) THEN order[i]
    ELSE FirstFitted(b, n, piece, order, i + 1)

\* for piece in available_pieces: for pos in strategic_positions: ...
RECURSIVE DefensivePlace(_, _, _, _, _)
DefensivePlace(st, n, color, pieces, i) ==
    IF i > Len(pieces) THEN FallBackToRandom(st, n, color)
    ELSE IF FirstFitted(st.board, n, pieces[i], GetStrategicPositions(n), 1) # <<>>
    THEN {PlaceChoice(pieces[i],
                      FirstFitted(st.board, n, pieces[i], GetStrategicPositions(n), 1))}
    ELSE DefensivePlace(st, n, color, pieces, i + 1)

\* DefensivePlayer._make_defensive_move: the moves it may return
MakeDefensiveMove(st, n, color) ==
    DefensivePlace(st, n, color, LargestFirst(GetAvailablePieces(st.position, color)), 1)

DefensiveBlocked(n, color, blocking) ==
    IF blocking.found THEN Chosen({blocking.choice}, blocking.st)
    ELSE Chosen(MakeDefensiveMove(blocking.st, n, color), blocking.st)

DefensiveWon(n, color, winning) ==
    IF winning.found THEN Chosen({winning.choice}, winning.st)
    ELSE DefensiveBlocked(n, color,
                          DefensiveFindBlockingMove(winning.st, n, color, RowMajor(n, 0), 1))

\* DefensivePlayer.choose_move
DefensiveChooseMove(st, n, color) ==
    DefensiveWon(n, color, FindMove("defensive_win", st, n, color, RowMajor(n, 0), 1))

----------------------------------------------------------------------------
(* simulator.py: GameSimulator.run_batch_simulation.  A game of the batch   *)
(* is a job: queued, then run by one thread through run_single_simulation   *)
(* (the game is played, its record is appended to the data manager's list,  *)
(* the data file is opened, the list is serialised, the file is written),   *)
(* then collected by the main thread.  The threads' steps interleave.       *)

\* max_workers=min(num_games, 8)
MAX_WORKERS == 8

\* the largest batch whose threads are followed step by step
MaxGames == 2

\* the most draws from the random generator followed in one game
MaxDraws == 1

\* the thread that called run_batch_simulation
MainThread == 0

PoolSize_Uncapped(n) == n

\* ThreadPoolExecutor(max_workers=min(num_games, 8))
PoolSize(n) == IF n < MAX_WORKERS THEN n ELSE MAX_WORKERS

\* the pool runs the games: parallel and num_games > 1
UsesPool == parallel /\ num_games > 1

Jobs == 1 .. num_games

QueuedJob == [phase |-> "queued", worker |-> -1, winner |-> NONE, draws |-> 0,
              snapshot |-> <<>>]

\* the phases in which a thread is inside run_single_simulation for the job
RunningPhases == {"playing", "played", "appended", "opened", "snapped"}

Running(j) == job[j].phase \in RunningPhases

\* the threads of the pool that have run a game so far
UsedWorkers == { job[j].worker : j \in { k \in Jobs : job[k].worker > MainThread } }

\* an idle thread of the pool; the threads are numbered as they first get work
IdleWorkers ==
    { w \in 1 .. PoolSize(num_games) :
        /\ \A j \in Jobs : Running(j) => job[j].worker # w
        /\ \A v \in 1 .. (w - 1) : v \in UsedWorkers }

\* GameSimulator.player_types
PlayerTypes == {"random", "greedy", "defensive"}

\* light_strategy: str = "random", dark_strategy: str = "random"
DefaultStrategy == "random"

\* the matchups of run_tournament: every strategy against every strategy
Matchups == Len(strategies) * Len(strategies)

\* for light_strategy in strategies: for dark_strategy in strategies
LightStrategy == strategies[((matchup - 1) \div Len(strategies)) + 1]

DarkStrategy == strategies[((matchup - 1) % Len(strategies)) + 1]

\* _create_player raises ValueError for a name that is not in player_types
CreatesPlayers == LightStrategy \in PlayerTypes /\ DarkStrategy \in PlayerTypes

\* one of the two players is a RandomPlayer
HasRandomPlayer == "random" \in {LightStrategy, DarkStrategy}

\* the record of the game j of the matchup being run
RecordId(j) == (matchup - 1) * num_games + j

\* "winner": winner.value if winner else "draw"
ResultWinner_NoneStays(w) == w

ResultWinner(w) == IF w # NONE THEN w ELSE "draw"

\* the result dictionary of run_single_simulation
Result(j) == [game |-> RecordId(j), winner |-> ResultWinner(job[j].winner)]

\* sum(1 for r in results if r["winner"] == name)
CountWinner(rs, name) == Cardinality({ i \in DOMAIN rs : rs[i].winner = name })

\* GameSimulator._analyze_batch_results
AnalyzeBatchResults(rs) ==
    IF rs = <<>> THEN NoAnalysis
    ELSE [computed |-> TRUE,
          raised |-> FALSE,
          total_games |-> Len(rs),
          light_wins |-> CountWinner(rs, "light"),
          dark_wins |-> CountWinner(rs, "dark"),
          draws |-> CountWinner(rs, "draw")]

\* the file after the bytes of the list recs were written from its start
\* through a handle opened before: a longer content written meanwhile keeps
\* its tail, and the file is no JSON list any more
WriteFromStart(f, recs) ==
    IF Len(recs) >= Len(f.records) THEN [records |-> recs, valid |-> TRUE]
    ELSE [records |-> f.records, valid |-> FALSE]

JoinedSome_(rs, n) == Len(rs) >= 1

\* the loop over as_completed(futures), or over range(num_games), has ended
JoinedAll(rs, n) == Len(rs) = n

InitBatch ==
    /\ size = BOARD_SIZE
    /\ board = EmptyBoard(size)
    /\ position = NoPositions
    /\ current_player = LIGHT
    /\ game_over = FALSE
    /\ winner = NONE
    /\ turn_count = 0
    /\ max_turns = 0
    /\ moves = <<>>
    /\ move_counter = 0
    /\ last = NoCall
    /\ turn = NoTurn
    /\ num_games \in 1 .. MaxGames
    /\ parallel \in BOOLEAN
    /\ job = [j \in 1 .. num_games |-> QueuedJob]
    /\ games = <<>>
    /\ file = EmptyFile
    /\ results = <<>>
    /\ analysis = NoAnalysis
    /\ rng = 0
    /\ strategies = <<DefaultStrategy>>
    /\ matchup = 1

boardAndGameVars == <<size, board, position, gameVars, last, turn>>

\* a thread of the pool takes the next game from the queue, or the main
\* thread starts the next game of _run_sequential_games
StartGame(j) ==
    /\ job[j].phase = "queued"
    /\ \A k \in 1 .. (j - 1) : job[k].phase # "queued"
    /\ IF UsesPool
       THEN \E w \in IdleWorkers : job' = [job EXCEPT ![j].phase = "playing", ![j].worker = w]
       ELSE /\ ~analysis.raised
            /\ \A k \in 1 .. (j - 1) : job[k].phase = "collected"
            /\ job' = [job EXCEPT ![j].phase = "playing", ![j].worker = MainThread]
    /\ UNCHANGED <<boardAndGameVars, tournamentVars, num_games, parallel, games, file, results, analysis, rng>>

\* a RandomPlayer of the game chooses a move: random.choice draws from the
\* generator of the random module
ChooseMove(j) ==
    /\ job[j].phase = "playing"
    /\ CreatesPlayers
    /\ HasRandomPlayer
    /\ job[j].draws < MaxDraws
    /\ rng' = j
    /\ job' = [job EXCEPT ![j].draws = @ + 1]
    /\ UNCHANGED <<boardAndGameVars, tournamentVars, num_games, parallel, games, file, results, analysis>>

\* play_game returns, and the game record is taken
GameReturns(j) ==
    /\ job[j].phase = "playing"
    /\ CreatesPlayers
    /\ HasRandomPlayer => job[j].draws >= 1
    /\ job' = [job EXCEPT ![j].phase = "played"]
    /\ UNCHANGED <<boardAndGameVars, tournamentVars, num_games, parallel, games, file, results, analysis, rng>>

\* an exception leaves run_single_simulation, which catches none: in the
\* pool the future of the game keeps it, in a sequential batch it leaves
\* run_batch_simulation at once
GameFaults(j) ==
    /\ job[j].phase = "playing"
    /\ job' = [job EXCEPT ![j].phase = "raised"]
    /\ analysis' = [analysis EXCEPT !.raised = @ \/ ~UsesPool]
    /\ UNCHANGED <<boardAndGameVars, tournamentVars, num_games, parallel, games, file, results, rng>>

\* save_game: self.games.append(game_record)
SaveAppend(j) ==
    /\ job[j].phase = "played"
    /\ games' = Append(games, RecordId(j))
    /\ job' = [job EXCEPT ![j].phase = "appended"]
    /\ UNCHANGED <<boardAndGameVars, tournamentVars, num_games, parallel, file, results, analysis, rng>>

\* _save_to_file: open(self.data_file, 'w') truncates the file
SaveOpen(j) ==
    /\ job[j].phase = "appended"
    /\ file' = EmptyFile
    /\ job' = [job EXCEPT ![j].phase = "opened"]
    /\ UNCHANGED <<boardAndGameVars, tournamentVars, num_games, parallel, games, results, analysis, rng>>

\* _save_to_file: [game.to_dict() for game in self.games]
SaveSerialise(j) ==
    /\ job[j].phase = "opened"
    /\ job' = [job EXCEPT ![j].phase = "snapped", ![j].snapshot = games]
    /\ UNCHANGED <<boardAndGameVars, tournamentVars, num_games, parallel, games, file, results, analysis, rng>>

\* _save_to_file: the list is written when the file is closed; then
\* run_single_simulation returns its result, with the winner play_game gave
SaveWrite(j) ==
    /\ job[j].phase = "snapped"
    /\ file' = WriteFromStart(file, job[j].snapshot)
    /\ \E w \in {LIGHT, DARK, NONE} :
          job' = [job EXCEPT ![j].phase = "done", ![j].winner = w]
    /\ UNCHANGED <<boardAndGameVars, tournamentVars, num_games, parallel, games, results, analysis, rng>>

\* results.append(result), of a future that completed or of the call that returned
Collect(j) ==
    /\ ~analysis.raised
    /\ job[j].phase = "done"
    /\ results' = Append(results, Result(j))
    /\ job' = [job EXCEPT ![j].phase = "collected"]
    /\ UNCHANGED <<boardAndGameVars, tournamentVars, num_games, parallel, games, file, analysis, rng>>

\* result = future.result() raises the exception the game ended with: it
\* leaves the loop over as_completed, the with block of the executor, which
\* lets the other games run to their end, and run_batch_simulation
CollectFault(j) ==
    /\ UsesPool
    /\ ~analysis.raised
    /\ job[j].phase = "raised"
    /\ analysis' = [analysis EXCEPT !.raised = TRUE]
    /\ UNCHANGED <<boardAndGameVars, tournamentVars, num_games, parallel, job, games, file, results, rng>>

\* run_batch_simulation: analysis = self._analyze_batch_results(results)
Analyse ==
    /\ ~analysis.computed
    /\ ~analysis.raised
    /\ JoinedAll(results, num_games)
    /\ analysis' = AnalyzeBatchResults(results)
    /\ UNCHANGED <<boardAndGameVars, tournamentVars, num_games, parallel, job, games, file, results, rng>>

NextBatch ==
    \/ \E j \in Jobs : StartGame(j)
    \/ \E j \in Jobs : ChooseMove(j)
    \/ \E j \in Jobs : GameReturns(j)
    \/ \E j \in Jobs : GameFaults(j)
    \/ \E j \in Jobs : SaveAppend(j)
    \/ \E j \in Jobs : SaveOpen(j)
    \/ \E j \in Jobs : SaveSerialise(j)
    \/ \E j \in Jobs : SaveWrite(j)
    \/ \E j \in Jobs : Collect(j)
    \/ \E j \in Jobs : CollectFault(j)
    \/ Analyse

SpecBatch == InitBatch /\ [][NextBatch]_vars

----------------------------------------------------------------------------
(* run_tournament: one batch after the other, every strategy against every  *)
(* strategy, all with the one data manager of the simulator.                *)

\* the names a caller may pass: two of player_types and one that is not
StrategyNames == {"random", "greedy", "invalid_strategy"}

\* the longest list of strategies of a tournament
MaxStrategies == 2

StrategyLists == UNION { [1 .. n -> StrategyNames] : n \in 1 .. MaxStrategies }

InitTournament ==
    /\ size = BOARD_SIZE
    /\ board = EmptyBoard(size)
    /\ position = NoPositions
    /\ current_player = LIGHT
    /\ game_over = FALSE
    /\ winner = NONE
    /\ turn_count = 0
    /\ max_turns = 0
    /\ moves = <<>>
    /\ move_counter = 0
    /\ last = NoCall
    /\ turn = NoTurn
    /\ strategies \in StrategyLists
    /\ matchup = 1
    /\ num_games \in 1 .. MaxGames
    /\ parallel = TRUE
    /\ job = [j \in 1 .. num_games |-> QueuedJob]
    /\ games = <<>>
    /\ file = EmptyFile
    /\ results = <<>>
    /\ analysis = NoAnalysis
    /\ rng = 0

\* run_batch_simulation has returned the aggregates of the matchup: they are
\* kept, and the next matchup is run, or the tournament returns
NextMatchup ==
    /\ matchup <= Matchups
    /\ analysis.computed
    /\ matchup' = matchup + 1
    /\ IF matchup < Matchups
       THEN /\ job' = [j \in 1 .. num_games |-> QueuedJob]
            /\ results' = <<>>
            /\ analysis' = NoAnalysis
       ELSE UNCHANGED <<job, results, analysis>>
    /\ UNCHANGED <<boardAndGameVars, strategies, num_games, parallel, games, file, rng>>

NextTournament ==
    \/ NextBatch
    \/ NextMatchup

SpecTournament == InitTournament /\ [][NextTournament]_vars

----------------------------------------------------------------------------
(* A game between two players made by _create_player: played through an     *)
(* opening, then play_turn asks the strategy of the side to move.  The game *)
(* is followed until a piece of a fall-back RandomPlayer is on the board.   *)

\* how many turns past its opening a game of two strategies may run
MaxStrategyTurns == 2

\* the strategy of the player of a colour
StrategyOf(color) == IF color = LIGHT THEN LightStrategy ELSE DarkStrategy

\* RandomPlayer.choose_move with the player's own pieces
RandomChooses(st, n, color) ==
    Chosen(RandomChooseMove([board |-> st.board, position |-> st.position,
                             current_player |-> color], n), st)

\* self.current_player.choose_move(self.board)
StrategyChooses(strategy, st, n, color) ==
    IF strategy = "greedy" THEN GreedyChooseMove(st, n, color)
    ELSE IF strategy = "defensive" THEN DefensiveChooseMove(st, n, color)
    ELSE RandomChooses(st, n, color)

InitStrategy ==
    /\ size = BOARD_SIZE
    /\ \E opening \in Openings :
          GameStarts(Replay(NewGame(size), size, Len(opening) + MaxStrategyTurns, opening, 1),
                     Len(opening) + MaxStrategyTurns, Len(opening))
    /\ last = NoCall
    /\ num_games = 0
    /\ parallel = FALSE
    /\ job = <<>>
    /\ games = <<>>
    /\ file = EmptyFile
    /\ results = <<>>
    /\ analysis = NoAnalysis
    /\ rng = 0
    /\ strategies \in PlayerTypes \X PlayerTypes
    /\ matchup = 2

\* a piece of a fall-back RandomPlayer has been placed on the board
FreshOnBoard == turn.op = "strategy_turn" /\ turn.fresh_placed

\* the game as choose_move has left it
Thought(st) == [Game EXCEPT !.board = st.board, !.position = st.position]

\* the game after a turn in which the strategy returned chosen.choice
StrategyTurnEnds(strategy, chosen, r) ==
    /\ board' = r.g.board
    /\ position' = r.g.position
    /\ current_player' = r.g.current_player
    /\ game_over' = r.g.game_over
    /\ winner' = r.g.winner
    /\ turn_count' = r.g.turn_count
    /\ moves' = r.g.moves
    /\ move_counter' = r.g.move_counter
    /\ turn' = [op |-> "strategy_turn", choice |-> chosen.choice, ret |-> r.ret,
                outcome |-> r.outcome, asked |-> r.asked, applied |-> r.applied,
                escaped |-> r.escaped, calls |-> turn.calls + 1, before |-> Game,
                strategy |-> strategy, thought |-> chosen.st,
                fresh_placed |-> chosen.choice.fresh /\ r.applied]
    /\ UNCHANGED <<size, max_turns, last, batchVars>>

\* play_turn() of play_game's loop: the strategy of the side to move is asked
PlayTurnOfStrategy ==
    /\ ~game_over
    /\ ~ExceedsMaxTurns(turn_count + 1, max_turns)
    /\ ~FreshOnBoard
    /\ \E chosen \in StrategyChooses(StrategyOf(current_player),
                                     [board |-> board, position |-> position],
                                     size, current_player) :
          StrategyTurnEnds(StrategyOf(current_player), chosen,
                           PlayTurn(Thought(chosen.st), size, max_turns, chosen.choice))

NextStrategy == PlayTurnOnFinishedGame \/ PlayTurnAtCap \/ PlayTurnOfStrategy

SpecStrategy == InitStrategy /\ [][NextStrategy]_vars

----------------------------------------------------------------------------
(* moves.py: Move and GameRecord, to_dict and from_dict.  A Python value is *)
(* a record that says its type.                                             *)

PyNone == [type |-> "NoneType"]

PyInt(i) == [type |-> "int", int |-> i]

PyFloat(x) == [type |-> "float", micros |-> x]

PyStr(s) == [type |-> "str", str |-> s]

PyTuple(items) == [type |-> "tuple", items |-> items]

PyList(items) == [type |-> "list", items |-> items]

\* PieceColor(value), the member of the enum with that value
PieceColorOf(value) == [type |-> "PieceColor", value |-> value]

\* PieceSize(value)
PieceSizeOf(value) == [type |-> "PieceSize", value |-> value]

\* a datetime, by its second and its microsecond
DateTime(second, microsecond) ==
    [type |-> "datetime", second |-> second, microsecond |-> microsecond]

\* an exception instead of a value
Raised == [type |-> "raised"]

\* the truth value of a Python value in a condition
Truthy(v) ==
    IF v.type = "NoneType" THEN FALSE
    ELSE IF v.type = "int" THEN v.int # 0
    ELSE IF v.type = "float" THEN v.micros # 0
    ELSE IF v.type = "str" THEN ("str" \in DOMAIN v => v.str # "")
    ELSE IF v.type \in {"tuple", "list"} THEN v.items # <<>>
    ELSE TRUE

\* datetime.isoformat: the microseconds are written only if they are not 0
IsoFormat(d) ==
    [type |-> "str",
     iso |-> IF d.microsecond = 0 THEN <<d.second>> ELSE <<d.second, d.microsecond>>]

\* datetime.fromisoformat
FromIsoFormat(text) ==
    IF text.type # "str" \/ "iso" \notin DOMAIN text THEN Raised
    ELSE DateTime(text.iso[1], IF Len(text.iso) = 2 THEN text.iso[2] ELSE 0)

ToTuple_Keeps(v) == v

\* tuple(value)
ToTuple(v) == IF v.type \in {"tuple", "list"} THEN PyTuple(v.items) ELSE Raised

\* the Move that record_move makes of a move of the game, at a time
MoveOf(m, timestamp) ==
    [player_color |-> PieceColorOf(m.player_color),
     move_type |-> PyStr(m.move_type),
     piece_id |-> PyInt(m.piece_id),
     piece_size |-> PieceSizeOf(m.piece_size),
     from_position |-> IF m.from_position = <<>> THEN PyNone ELSE PyTuple(m.from_position),
     to_position |-> PyTuple(m.to_position),
     captured_piece_id |-> IF m.captured_piece_id = NoneId THEN PyNone
                           ELSE PyInt(m.captured_piece_id),
     move_number |-> PyInt(m.move_number),
     timestamp |-> timestamp]

\* Move.to_dict
MoveToDict(move) ==
    [player_color |-> PyStr(move.player_color.value),
     move_type |-> move.move_type,
     piece_id |-> move.piece_id,
     piece_size |-> PyInt(move.piece_size.value),
     from_position |-> move.from_position,
     to_position |-> move.to_position,
     captured_piece_id |-> move.captured_piece_id,
     move_number |-> move.move_number,
     timestamp |-> IsoFormat(move.timestamp)]

\* Move.from_dict
MoveFromDict(data) ==
    [player_color |-> PieceColorOf(data.player_color.str),
     move_type |-> data.move_type,
     piece_id |-> data.piece_id,
     piece_size |-> PieceSizeOf(data.piece_size.int),
     from_position |-> IF Truthy(data.from_position) THEN ToTuple(data.from_position)
                       ELSE PyNone,
     to_position |-> ToTuple(data.to_position),
     captured_piece_id |-> data.captured_piece_id,
     move_number |-> data.move_number,
     timestamp |-> FromIsoFormat(data.timestamp)]

\* MoveTracker.get_game_record of the game g of two strategies, begun at
\* start, its moves made at moved, ended (if it is over) at end
GetGameRecord(g, names, start, moved, end) ==
    [game_id |-> PyStr("uuid4"),
     start_time |-> start,
     end_time |-> IF g.game_over THEN end ELSE PyNone,
     winner |-> IF g.winner = NONE THEN PyNone ELSE PieceColorOf(g.winner),
     moves |-> [i \in DOMAIN g.moves |-> MoveOf(g.moves[i], moved)],
     player_strategies |-> {<<PieceColorOf(LIGHT), PyStr(names[1])>>,
                            <<PieceColorOf(DARK), PyStr(names[2])>>},
     total_moves |-> PyInt(Len(g.moves)),
     game_duration_seconds |->
         IF g.game_over
         THEN PyFloat((end.second - start.second) * 1000000
                        + end.microsecond - start.microsecond)
         ELSE PyNone]

\* GameRecord.to_dict
GameRecordToDict(record) ==
    [game_id |-> record.game_id,
     start_time |-> IsoFormat(record.start_time),
     end_time |-> IF Truthy(record.end_time) THEN IsoFormat(record.end_time) ELSE PyNone,
     winner |-> IF Truthy(record.winner) THEN PyStr(record.winner.value) ELSE PyNone,
     moves |-> [i \in DOMAIN record.moves |-> MoveToDict(record.moves[i])],
     player_strategies |-> { <<PyStr(kv[1].value), kv[2]>> : kv \in record.player_strategies },
     total_moves |-> record.total_moves,
     game_duration_seconds |-> record.game_duration_seconds]

\* GameRecord.from_dict
GameRecordFromDict(data) ==
    [game_id |-> data.game_id,
     start_time |-> FromIsoFormat(data.start_time),
     end_time |-> IF Truthy(data.end_time) THEN FromIsoFormat(data.end_time) ELSE PyNone,
     winner |-> IF Truthy(data.winner) THEN PieceColorOf(data.winner.str) ELSE PyNone,
     moves |-> [i \in DOMAIN data.moves |-> MoveFromDict(data.moves[i])],
     player_strategies |-> { <<PieceColorOf(kv[1].str), kv[2]>> : kv \in data.player_strategies },
     total_moves |-> data.total_moves,
     game_duration_seconds |-> data.game_duration_seconds]

\* json.dump and json.load of a value: a tuple comes back as a list
JsonValue(v) == IF v.type = "tuple" THEN PyList(v.items) ELSE v

\* json.dump and json.load of the dictionary of a move
JsonMove(data) ==
    [data EXCEPT !.from_position = JsonValue(@), !.to_position = JsonValue(@)]

\* GameDataManager._save_to_file and load_games: the dictionary of a record
\* as it comes back from the file
JsonRecord(data) ==
    [data EXCEPT !.moves = [i \in DOMAIN data.moves |-> JsonMove(data.moves[i])]]

\* the instants of the clock, in the order of time
Times == <<DateTime(0, 0), DateTime(0, 5), DateTime(1, 0)>>

\* the strategy names of the two players of a recorded game
RecordedStrategies == {<<"random", "greedy">>, <<"defensive", "random">>}

\* to_dict, then from_dict of what to_dict returned, as is or saved to the
\* file and loaded from it
RoundTrip(record, through_file) ==
    [op |-> "round_trip", record |-> record, through_file |-> through_file,
     parsed |-> IF through_file
                THEN GameRecordFromDict(JsonRecord(GameRecordToDict(record)))
                ELSE GameRecordFromDict(GameRecordToDict(record))]

\* game.get_game_record(), to_dict and from_dict, once, of a game played as
\* far as it has been
ConvertGameRecord ==
    /\ last.op = "none"
    /\ \E names \in RecordedStrategies, through_file \in BOOLEAN :
         \E start \in 1 .. Len(Times) : \E moved \in start .. Len(Times) :
           \E end \in moved .. Len(Times) :
              last' = RoundTrip(GetGameRecord(Game, names, Times[start], Times[moved],
                                              Times[end]), through_file)
    /\ UNCHANGED <<size, board, position, gameVars, batchVars>>

\* the game is played until its record is taken
PlayBeforeRecord == last.op = "none" /\ NextGame

NextRecord == PlayBeforeRecord \/ ConvertGameRecord

SpecRecord == InitGame /\ [][NextRecord]_vars

----------------------------------------------------------------------------
(* The thread pool of _run_parallel_games on its own, for batches larger    *)
(* than the pool: which thread runs which game, and when.  What a game      *)
(* does to the data manager and to the results is followed in the batch     *)
(* above; here a game is only taken from the queue and, later, finished.    *)

\* how many games more than MAX_WORKERS a batch of the pool may have
MaxExtraGames == 1

InitPool ==
    /\ size = BOARD_SIZE
    /\ board = EmptyBoard(size)
    /\ position = NoPositions
    /\ current_player = LIGHT
    /\ game_over = FALSE
    /\ winner = NONE
    /\ turn_count = 0
    /\ max_turns = 0
    /\ moves = <<>>
    /\ move_counter = 0
    /\ last = NoCall
    /\ turn = NoTurn
    /\ num_games \in 2 .. (MAX_WORKERS + MaxExtraGames)
    /\ parallel = TRUE
    /\ job = [j \in 1 .. num_games |-> QueuedJob]
    /\ games = <<>>
    /\ file = EmptyFile
    /\ results = <<>>
    /\ analysis = NoAnalysis
    /\ rng = 0
    /\ strategies = <<DefaultStrategy>>
    /\ matchup = 1

\* an idle thread of the pool takes the game at the head of the queue
PoolTakesGame(j) ==
    /\ job[j].phase = "queued"
    /\ \A k \in 1 .. (j - 1) : job[k].phase # "queued"
    /\ \E w \in IdleWorkers : job' = [job EXCEPT ![j].phase = "playing", ![j].worker = w]
    /\ UNCHANGED <<boardAndGameVars, tournamentVars, num_games, parallel, games, file, results, analysis, rng>>

\* the thread w comes to the end of the run_single_simulation it is in
PoolFinishesGame(w) ==
    /\ \E j \in Jobs :
          /\ Running(j)
          /\ job[j].worker = w
          /\ job' = [job EXCEPT ![j].phase = "done"]
    /\ UNCHANGED <<boardAndGameVars, tournamentVars, num_games, parallel, games, file, results, analysis, rng>>

NextPool ==
    \/ \E j \in Jobs : PoolTakesGame(j)
    \/ \E w \in 1 .. PoolSize(num_games) : PoolFinishesGame(w)

SpecPool == InitPool /\ [][NextPool]_vars

----------------------------------------------------------------------------
(* What the claims speak of, stated on the cells themselves *)

\* the colour showing on a cell
TopColorAt(b, cell) == IF b[cell] = <<>> THEN NONE ELSE b[cell][Len(b[cell])].color

TopSizeAt(b, cell) == IF b[cell] = <<>> THEN 0 ELSE b[cell][Len(b[cell])].size

\* the lines through a cell: its row, its column, each main diagonal holding it
LinesThrough(n, cell) ==
    {{c \in Cells(n) : c[1] = cell[1]}, {c \in Cells(n) : c[2] = cell[2]}}
      \cup (IF cell[1] = cell[2] THEN {{c \in Cells(n) : c[1] = c[2]}} ELSE {})
      \cup (IF cell[1] + cell[2] = n - 1
            THEN {{c \in Cells(n) : c[1] + c[2] = n - 1}} ELSE {})

\* the cell shows the colour and some line through it shows it on exactly three cells
OpenThree(b, n, cell, color) ==
    /\ TopColorAt(b, cell) = color
    /\ \E L \in LinesThrough(n, cell) :
          Cardinality({c \in L : TopColorAt(b, c) = color}) = 3

\* every line of the board: rows, columns, the two main diagonals
AllLines(n) ==
    {{c \in Cells(n) : c[1] = r} : r \in 0 .. (n - 1)}
      \cup {{c \in Cells(n) : c[2] = k} : k \in 0 .. (n - 1)}
      \cup {{c \in Cells(n) : c[1] = c[2]}, {c \in Cells(n) : c[1] + c[2] = n - 1}}

HasCompleteLine(b, n, color) ==
    \E L \in AllLines(n) : \A c \in L : TopColorAt(b, c) = color

LastCell == <<last.row, last.col>>

\* the last call was place_piece on a cell of the board that held a piece
PlacedOnPiece(is_new) ==
    /\ last.op = "place"
    /\ last.is_new = is_new
    /\ LastCell \in Cells(size)
    /\ last.board[LastCell] # <<>>

C2_StacksStrictlyIncreasing ==
    \A cell \in Cells(size) :
        \A i \in 1 .. (Len(board[cell]) - 1) :
            board[cell][i].size < board[cell][i + 1].size

\* C2 witness: a placement has built a stack of three
C2_Witness ==
    /\ last.op = "place"
    /\ last.ok
    /\ LastCell \in Cells(size)
    /\ Len(board[LastCell]) = 3

\* the colour of the first complete line, rows first (top to bottom), then
\* columns (left to right), then the main diagonal, then the anti-diagonal
FirstCompleteLine(b, n) ==
    LET rowOf(r) == {c \in Cells(n) : c[1] = r}
        colOf(k) == {c \in Cells(n) : c[2] = k}
        diag == {c \in Cells(n) : c[1] = c[2]}
        anti == {c \in Cells(n) : c[1] + c[2] = n - 1}
        full(L) == \E color \in Colors : \A c \in L : TopColorAt(b, c) = color
        colorOf(L) == CHOOSE color \in Colors : \A c \in L : TopColorAt(b, c) = color
        rows == {r \in 0 .. (n - 1) : full(rowOf(r))}
        cols == {k \in 0 .. (n - 1) : full(colOf(k))}
    IN  IF rows # {} THEN colorOf(rowOf(CHOOSE r \in rows : \A q \in rows : r <= q))
        ELSE IF cols # {} THEN colorOf(colOf(CHOOSE k \in cols : \A q \in cols : k <= q))
        ELSE IF full(diag) THEN colorOf(diag)
        ELSE IF full(anti) THEN colorOf(anti)
        ELSE NONE

\* C3 as claimed: check_winner() returns colour C iff some row, column or main
\* diagonal has all N top pieces of colour C, for each colour C and every board.
C3_Original ==
    last.op = "check_winner" =>
        \A color \in Colors :
            last.winner = color <=> HasCompleteLine(last.board, size, color)

\* C3 as amended: check_winner() returns none iff no line is complete; the
\* colour it returns has a complete line; when only one colour has a complete
\* line it returns that colour; when both have one it returns the colour of
\* the first complete line in its scan order.
C3_WinnerIsFirstCompleteLine ==
    last.op = "check_winner" =>
        LET w == last.winner
            b == last.board
        IN  /\ w = NONE <=> \A color \in Colors : ~HasCompleteLine(b, size, color)
            /\ w # NONE => HasCompleteLine(b, size, w)
            /\ \A color \in Colors :
                  (HasCompleteLine(b, size, color)
                     /\ ~HasCompleteLine(b, size, OpponentOf(color))) => w = color
            /\ w = FirstCompleteLine(b, size)

\* C3 witness: check_winner() was called on a board where both colours have a
\* complete line
C3_Witness ==
    /\ last.op = "check_winner"
    /\ HasCompleteLine(board, size, LIGHT)
    /\ HasCompleteLine(board, size, DARK)
    /\ last.winner \in Colors

\* C4: when place_piece returns False, every stack of the board and every
\* piece's position field are as before the call.
C4_RejectedPlaceMutatesNothing ==
    (last.op = "place" /\ ~last.ok) =>
        /\ board = last.board
        /\ position = last.position

\* C4 witness: a New cover of a smaller opponent piece was rejected for want of
\* an open three
C4_Witness ==
    /\ PlacedOnPiece(TRUE)
    /\ ~last.ok
    /\ TopColorAt(last.board, LastCell) # last.piece.color
    /\ last.piece.size > TopSizeAt(last.board, LastCell)

----------------------------------------------------------------------------
(* The turn just played, as the claims about play_turn speak of it *)

Before == turn.before

Mover == Before.current_player

\* the last call of play_turn asked the active side and got a move of the type
AskedFor(move_type) ==
    /\ turn.op = "play_turn"
    /\ turn.asked = 1
    /\ turn.choice.kind = "move"
    /\ turn.choice.move_type = move_type

\* the move names a piece of the active side that is the top piece of its origin
LiftsOwnTopPiece ==
    /\ AskedFor("move")
    /\ turn.choice.piece.color = Mover
    /\ turn.choice.from_position \in Cells(size)
    /\ Before.board[turn.choice.from_position] # <<>>
    /\ Before.board[turn.choice.from_position]
         [Len(Before.board[turn.choice.from_position])].id = turn.choice.piece.id

\* the destination of the move shows a strictly smaller piece of the other side
OntoSmallerOpponent ==
    /\ turn.choice.to_position \in Cells(size)
    /\ TopColorAt(Before.board, turn.choice.to_position) = OpponentOf(Mover)
    /\ TopSizeAt(Before.board, turn.choice.to_position) < turn.choice.piece.size

\* C6: a Relocate move of the game whose piece is the active side's top piece
\* at its origin and whose destination shows a strictly smaller opponent piece
\* is applied, whatever the lines through the destination show.
C6_GameRelocationNeedsNoOpenThree ==
    (LiftsOwnTopPiece /\ OntoSmallerOpponent) => turn.applied

\* C7: a Relocate move that is rejected after its piece was lifted leaves the
\* board, and where every piece is, exactly as before the move.
C7_RejectedRelocationRestoresBoard ==
    (LiftsOwnTopPiece /\ ~turn.applied) =>
        /\ board = Before.board
        /\ position = Before.position

\* the last call of play_turn asked the active side, whose choose_move raised
\* or whose move did not apply
Faulted ==
    /\ turn.op = "play_turn"
    /\ ~Before.game_over
    /\ turn.asked = 1
    /\ ~turn.applied
    /\ turn.choice.is_mapping
    /\ \A pos \in {turn.choice.position, turn.choice.from_position, turn.choice.to_position} :
          pos = <<>> \/ Len(pos) = 2

\* C8: when choose_move raises or the returned move (a mapping whose
\* coordinates are pairs or missing) fails to apply, the game
\* is over after that same call of play_turn, the winner is the opponent of
\* the side that was asked, the side was asked once, and no move is recorded.
C8_FaultForfeitsAtOnce ==
    Faulted =>
        /\ game_over
        /\ winner = OpponentOf(Mover)
        /\ ~turn.ret
        /\ moves = Before.moves
        /\ move_counter = Before.move_counter

\* C8 witness: a move that breaks the covering rule lost the game for its side
C8_Witness ==
    /\ Faulted
    /\ AskedFor("place")
    /\ turn.choice.piece.color = Mover
    /\ Before.position[turn.choice.piece.id] = <<>>
    /\ turn.choice.position \in Cells(size)
    /\ Before.board[turn.choice.position] # <<>>
    /\ game_over
    /\ winner = OpponentOf(Mover)

\* every cell of the board holds a piece
EveryCellTaken(b, n) == \A cell \in Cells(n) : b[cell] # <<>>

\* C9: after a move that applied, the game is over with winner c if
\* check_winner returns c; else it is over without a winner if the board is
\* full; else it goes on and the other colour is the active side.
C9_AfterAppliedMove ==
    (turn.op = "play_turn" /\ turn.applied) =>
        IF CheckWinner(board, size) # NONE
        THEN game_over /\ winner = CheckWinner(board, size)
        ELSE IF EveryCellTaken(board, size)
        THEN game_over /\ winner = NONE
        ELSE ~game_over /\ current_player = OpponentOf(Mover)

\* C9 witness: a move filled the last free cell, completed no line, and the
\* game ended without a winner
C9_Witness ==
    /\ turn.op = "play_turn"
    /\ turn.applied
    /\ CheckWinner(board, size) = NONE
    /\ EveryCellTaken(board, size)
    /\ ~EveryCellTaken(Before.board, size)
    /\ game_over
    /\ winner = NONE

\* C10: a game is over after at most max_turns + 1 calls of play_turn,
\* play_game's loop stops only on a game that is over (a call that returns
\* False, or that does not return, leaves the game over), and at most
\* max_turns moves are applied and recorded.
C10_GameEndsWithinCap ==
    /\ turn.calls <= max_turns + 1
    /\ turn.calls = max_turns + 1 => game_over
    /\ (~turn.ret \/ turn.escaped) => game_over
    /\ Len(moves) <= max_turns
    /\ move_counter = Len(moves)

\* the value returned by choose_move is none of the moves the game knows:
\* an unknown move type, move data that is no mapping, a missing piece or
\* coordinate, or a coordinate that is no pair
NoProperMove ==
    /\ turn.op = "play_turn"
    /\ turn.asked = 1
    /\ turn.choice.kind = "move"
    /\ \/ turn.choice.move_type \notin {"place", "move"}
       \/ ~turn.choice.is_mapping
       \/ turn.choice.piece = NoPiece
       \/ /\ turn.choice.move_type = "place"
          /\ Len(turn.choice.position) # 2
       \/ /\ turn.choice.move_type = "move"
          /\ Len(turn.choice.from_position) # 2 \/ Len(turn.choice.to_position) # 2

\* C11: whatever value of that kind choose_move returns, play_turn returns and
\* the game is over with the opponent of the side that was asked as winner.
C11_NoProperMoveForfeits ==
    NoProperMove =>
        /\ ~turn.escaped
        /\ game_over
        /\ winner = OpponentOf(Mover)

\* the move of the last turn is one RandomPlayer enumerates for the active side
RandomEnumerated ==
    /\ turn.op = "play_turn"
    /\ turn.asked = 1
    /\ turn.choice \in RandomPossibleMoves(Before, size)

\* C12: every move RandomPlayer enumerates (New placements on the cells of
\* get_valid_moves_for_new_piece, relocations onto the cells of
\* get_valid_moves_for_existing_piece) is applied by the game; the turn does
\* not end in forfeiture.
C12_RandomMovesAreApplied ==
    RandomEnumerated => turn.applied

\* the colour that makes the k-th move of a game
ColourOfMove(k) == IF k % 2 = 1 THEN LIGHT ELSE DARK

\* C13: a new game is in progress with turn count 0 and light active, and in
\* the record of every game the k-th move is light's iff k is odd; while the
\* game is in progress the active side is the one whose move comes next.
C13_MovesAlternate ==
    /\ (turn.op = "none" /\ turn.calls = 0) =>
          /\ ~game_over
          /\ turn_count = 0
          /\ current_player = LIGHT
          /\ moves = <<>>
    /\ \A k \in 1 .. Len(moves) :
          /\ moves[k].player_color = ColourOfMove(k)
          /\ moves[k].move_number = k
    /\ ~game_over => current_player = ColourOfMove(Len(moves) + 1)

\* C13 witness: a third move was applied, by light, after a move of dark
C13_Witness ==
    /\ turn.op = "play_turn"
    /\ turn.applied
    /\ Len(moves) = 3
    /\ moves[2].player_color = DARK
    /\ moves[3].player_color = LIGHT
    /\ ~game_over
    /\ current_player = DARK

\* C14: play_turn on a finished game returns False and leaves the board, the
\* pieces' positions, the winner, the turn count, the active side and the
\* recorded moves as they were.
C14_FinishedGameIsFrozen ==
    (turn.op = "play_turn" /\ Before.game_over) =>
        /\ ~turn.ret
        /\ ~turn.escaped
        /\ game_over
        /\ board = Before.board
        /\ position = Before.position
        /\ winner = Before.winner
        /\ turn_count = Before.turn_count
        /\ current_player = Before.current_player
        /\ moves = Before.moves
        /\ move_counter = Before.move_counter

\* C14 witness: play_turn was called on a game that a side had won
C14_Witness ==
    /\ turn.op = "play_turn"
    /\ Before.game_over
    /\ Before.winner # NONE
    /\ Before.moves # <<>>
    /\ winner = Before.winner

\* C15: the turn counter advances exactly in the turns whose move applied
\* without winning or filling the board (not in a turn that ends in a win, a
\* full board or a forfeiture), and the game is ended by the cap, nobody
\* being asked, exactly when the counter exceeds max_turns.
C15_CounterCountsContinuingMoves ==
    (turn.op = "play_turn" /\ ~Before.game_over) =>
        /\ turn_count = Before.turn_count + (IF turn.applied /\ ~game_over THEN 1 ELSE 0)
        /\ (turn.asked = 0 /\ game_over /\ winner = NONE) <=> turn_count > max_turns

----------------------------------------------------------------------------
(* Batches of games.                                                        *)

\* the batch has returned its aggregates
BatchReturned == analysis.computed

\* the games some thread is executing
RunningJobs == { j \in Jobs : Running(j) }

\* the records the file holds
Persisted == { file.records[i] : i \in DOMAIN file.records }

\* C16: whether the batch ran sequentially or in the pool, the aggregates
\* it returns have total_games equal to the number of games requested, and
\* the wins of light, the wins of dark and the draws add up to that number.
C16_AggregatesCountEveryGame ==
    BatchReturned =>
        /\ analysis.total_games = num_games
        /\ analysis.light_wins + analysis.dark_wins + analysis.draws = num_games

\* a batch run in the pool returned with a win of light and a draw in it
C16_Witness ==
    /\ BatchReturned
    /\ UsesPool
    /\ analysis.light_wins >= 1
    /\ analysis.draws >= 1

\* C17: after a batch run in the pool has returned, the list of the data
\* manager holds one record per game and the file, as the last write left
\* it, is a list with every one of these records, however the save_game
\* calls of the threads were interleaved.
C17_PoolBatchPersistsEveryRecord ==
    (BatchReturned /\ UsesPool) =>
        /\ Len(games) = num_games
        /\ file.valid
        /\ Persisted = Jobs

\* C18: the games of a batch share no state that changes: a game that has
\* drawn a random number and is still playing finds the generator as its
\* own last draw left it, no other game having drawn from it meanwhile.
C18_GamesDrawFromOwnStream ==
    \A j \in Jobs : (job[j].phase = "playing" /\ job[j].draws >= 1) => rng = j

\* C19: the aggregates are computed only when every game of the batch has
\* finished and its result has been collected: none is computed from a
\* part of the results.
C19_AggregatesAfterJoin ==
    BatchReturned =>
        /\ \A j \in Jobs : job[j].phase = "collected"
        /\ Len(results) = num_games

\* a batch run in the pool returned, its results collected in another order
\* than the games were submitted in
C19_Witness ==
    /\ BatchReturned
    /\ UsesPool
    /\ results[1].game # 1

\* C20: at every moment of a batch run in the pool the games being executed
\* are at most num_games and at most 8, each by a thread of its own, which
\* it keeps from its start to its end.
C20_PoolBoundsConcurrency ==
    /\ Cardinality(RunningJobs) <= num_games
    /\ Cardinality(RunningJobs) <= MAX_WORKERS
    /\ \A j \in RunningJobs : job[j].worker \in 1 .. MAX_WORKERS
    /\ \A j, k \in RunningJobs : j # k => job[j].worker # job[k].worker
    /\ \A j \in Jobs : job[j].phase = "done" => job[j].worker \in 1 .. MAX_WORKERS

\* more games than threads: every thread is executing a game, the last game
\* of the batch on a thread that finished another one before
C20_Witness ==
    /\ num_games > MAX_WORKERS
    /\ Cardinality(RunningJobs) = MAX_WORKERS
    /\ Running(num_games)
    /\ \E j \in Jobs : job[j].phase = "done" /\ job[j].worker = job[num_games].worker

\* C21: an exception raised inside one game of a batch run in the pool
\* stays with that game: it never leaves run_batch_simulation, which goes
\* on to return its aggregates.
C21_FaultStaysInItsGame ==
    UsesPool => ~analysis.raised

\* C22: when a strategy name is unknown, the batch or the tournament fails
\* before any simulation starts: no game record is ever persisted, not even
\* by the matchups that come before the first one naming the unknown
\* strategy.
C22_UnknownStrategyFailsFirst ==
    (\E i \in DOMAIN strategies : strategies[i] \notin PlayerTypes) => games = <<>>

----------------------------------------------------------------------------
(* Place moves onto a piece of the other side *)

\* the last turn's move places a piece of the active side's reserve on a cell
\* that shows a strictly smaller piece of the other side
PlacesOntoSmallerOpponent ==
    /\ AskedFor("place")
    /\ turn.choice.is_mapping
    /\ turn.choice.piece.color = Mover
    /\ Before.position[turn.choice.piece.id] = <<>>
    /\ turn.choice.position \in Cells(size)
    /\ TopColorAt(Before.board, turn.choice.position) = OpponentOf(Mover)
    /\ TopSizeAt(Before.board, turn.choice.position) < turn.choice.piece.size

\* the piece of the last turn's move is the top piece of the cell it names
PlacedPieceIsOnTop ==
    /\ board[turn.choice.position] # <<>>
    /\ TopPiece(board[turn.choice.position]) = turn.choice.piece

----------------------------------------------------------------------------
(* The cells offered for a New piece *)

\* the cells on which place_piece accepts a New piece of the colour and size
AcceptsNewPiece(b, pos, n, color, piece_size) ==
    { cell \in Cells(n) :
        \E p \in InitPieces(color) :
            p.size = piece_size /\ PlacePiece(b, pos, n, p, cell[1], cell[2], TRUE).ok }

\* C28: get_valid_moves_for_new_piece(color, size) returns exactly the cells
\* on which place_piece of a New piece of that colour and size succeeds:
\* every empty cell and every cell that shows a strictly smaller piece of
\* the other colour on an open three of that colour, and no other cell.
C28_ValidNewMovesAreThePlaceableCells ==
    last.op = "valid_moves_new" =>
        /\ last.cells = AcceptsNewPiece(board, position, size, last.color, last.piece_size)
        /\ last.cells =
              { cell \in Cells(size) :
                  \/ board[cell] = <<>>
                  \/ /\ TopColorAt(board, cell) = OpponentOf(last.color)
                     /\ TopSizeAt(board, cell) < last.piece_size
                     /\ OpenThree(board, size, cell, OpponentOf(last.color)) }

\* the cells returned hold a covered cell, and leave out a cell showing a
\* smaller piece of the other colour that is on no open three
C28_Witness ==
    /\ last.op = "valid_moves_new"
    /\ \E cell \in last.cells : board[cell] # <<>>
    /\ \E cell \in Cells(size) \ last.cells :
          /\ TopColorAt(board, cell) = OpponentOf(last.color)
          /\ TopSizeAt(board, cell) < last.piece_size

----------------------------------------------------------------------------
(* The copy of a board *)

\* C29: copy() returns a board of the same size whose every cell holds the
\* same pieces (id, colour, size) bottom to top as the board copied; a
\* place or remove made afterwards on one of the two boards leaves the
\* other one as it was.
C29_CopyIsEqualAndIndependent ==
    /\ last.op = "copy" =>
          /\ DOMAIN last.copy = Cells(size)
          /\ \A cell \in Cells(size) : last.copy[cell] = board[cell]
    /\ last.op \in {"copy.place", "copy.remove"} => board = last.board
    /\ last.op \in {"board.place", "board.remove"} => last.copy = last.board

\* a piece was placed on the copy of a board with a covered piece on it
C29_Witness ==
    /\ last.op = "copy.place"
    /\ last.ok
    /\ last.copy # board
    /\ \E cell \in Cells(size) : Len(board[cell]) >= 2

\* C23: choose_move of each built-in strategy leaves the stack of every cell
\* of the game's board as it found it: the hypothetical moves are made on
\* copies only
C23_ChooseMoveLeavesTheBoard ==
    turn.op = "strategy_turn" =>
        \A cell \in Cells(size) : turn.thought.board[cell] = turn.before.board[cell]

\* a Greedy player with pieces on the board has tried moves on copies, which
\* its pieces' position fields show, and has chosen to move one of them
C23_Witness ==
    /\ turn.op = "strategy_turn"
    /\ turn.strategy = "greedy"
    /\ turn.choice.move_type = "move"
    /\ turn.thought.position # turn.before.position
    /\ \E cell \in Cells(size) : turn.before.board[cell] # <<>>

\* the legal New and Relocate moves of the side to move after which the game
\* is over with that side as the winner
WinningMoves(g, n, cap) ==
    { c \in RandomPossibleMoves(g, n) :
        /\ PlayTurn(g, n, cap, c).applied
        /\ PlayTurn(g, n, cap, c).g.winner = g.current_player }

\* C24: a Greedy side that has a legal New or Relocate move that wins returns
\* such a move, and the game, applying it, ends with Greedy as the winner
C24_GreedyTakesItsWin ==
    (/\ turn.op = "strategy_turn"
     /\ turn.strategy = "greedy"
     /\ WinningMoves(turn.before, size, max_turns) # {})
        => /\ turn.choice \in WinningMoves(turn.before, size, max_turns)
           /\ turn.applied
           /\ game_over
           /\ winner = turn.before.current_player

\* the cells on which a New placement of a piece of some size of the colour
\* would win at once
NewPlacementWinsAt(b, n, color) ==
    { cell \in Cells(n) :
        \E s \in PieceSizes :
            /\ IsPlacementValid(b, n, Piece(color, s, -1), cell[1], cell[2], TRUE)
            /\ CheckWinner([b EXCEPT ![cell] = Append(@, Piece(color, s, -1))], n) = color }

\* C25: a Defensive side without a win of its own, with a piece in reserve
\* and with a cell on which a New placement of the opponent would win,
\* returns a New placement on such a cell, and the game accepts the move
C25_DefensiveBlocksTheThreat ==
    (/\ turn.op = "strategy_turn"
     /\ turn.strategy = "defensive"
     /\ GetAvailablePieces(turn.before.position, turn.before.current_player) # {}
     /\ NewPlacementWinsAt(turn.before.board, size,
                           OpponentOf(turn.before.current_player)) # {})
        => \/ /\ turn.choice.move_type = "place"
              /\ turn.choice.position
                   \in NewPlacementWinsAt(turn.before.board, size,
                                          OpponentOf(turn.before.current_player))
              /\ turn.applied
           \/ WinningMoves(turn.before, size, max_turns) # {}

\* the moves choose_move of the strategy may return in the game g
MayReturn(strategy, g, n) ==
    { c.choice : c \in StrategyChooses(strategy,
                                       [board |-> g.board, position |-> g.position],
                                       n, g.current_player) }

\* C26: choose_move of Greedy and of Defensive returns, for a board and an
\* inventory, one move only, whatever the random draws
C26_GreedyAndDefensiveAreDeterministic ==
    (turn.op = "strategy_turn" /\ turn.strategy \in {"greedy", "defensive"})
        => MayReturn(turn.strategy, turn.before, size) = {turn.choice}

C31_MoveNumbersCountAppliedMoves ==
    /\ \A i \in DOMAIN moves : moves[i].move_number = i
    /\ GetGameRecord(Game, <<"random", "random">>, Times[1], Times[1], Times[1]).total_moves
         = PyInt(Len(moves))
    /\ (turn.op = "play_turn" /\ ~turn.applied) => moves = turn.before.moves
    /\ (turn.op = "play_turn" /\ turn.applied)
          => /\ Len(moves) = Len(turn.before.moves) + 1
             /\ moves[Len(moves)].move_number = Len(turn.before.moves) + 1

\* both sides have moves on record, and the turn just played was asked for a
\* move that the game rejected
C31_Witness ==
    /\ turn.op = "play_turn"
    /\ turn.asked = 1
    /\ turn.choice.kind = "move"
    /\ ~turn.applied
    /\ \E i, j \in DOMAIN moves : moves[i].player_color # moves[j].player_color

\* C32: in a game between built-in strategies each piece id is in at most
\* one place of the stacks of the board
C32_PieceIdsAreUnique ==
    \A c1 \in Cells(size), c2 \in Cells(size) :
        \A i \in DOMAIN board[c1], j \in DOMAIN board[c2] :
            board[c1][i].id = board[c2][j].id => (c1 = c2 /\ i = j)

\* the position field of every piece of the players is None if the piece is
\* in no stack of the board, and is otherwise the cell whose stack holds it
PositionsAreOfTheBoard(b, pos, n) ==
    \A p \in AllPieces :
        IF WhereOnBoard(b, n, p) = {} THEN pos[p.id] = <<>>
        ELSE pos[p.id] \in WhereOnBoard(b, n, p)

\* C33: in a game between built-in strategies, after each choose_move and
\* after each turn, the position fields of the players' pieces agree with
\* the board
C33_PositionsAgreeWithBoard ==
    /\ PositionsAreOfTheBoard(board, position, size)
    /\ turn.op = "strategy_turn"
          => PositionsAreOfTheBoard(turn.thought.board, turn.thought.position, size)

\* C34: when a game ends with a winner after a move that was applied, the
\* winner has a complete line on the board and the other colour has none
C34_WinnerAloneHasALine ==
    (turn.op = "play_turn" /\ turn.applied /\ game_over /\ winner # NONE)
        => /\ HasCompleteLine(board, size, winner)
           /\ ~HasCompleteLine(board, size, OpponentOf(winner))

\* C35: in every board reached by place_piece and remove_piece, two pieces
\* of a stack that lie one on the other have different colours
C35_NoPieceOnItsOwnColour ==
    \A cell \in Cells(size) :
        \A i \in 1 .. (Len(board[cell]) - 1) :
            board[cell][i].color # board[cell][i + 1].color

\* place_piece has put a piece on a piece of the other colour
C35_Witness ==
    /\ last.op = "place"
    /\ last.ok
    /\ Len(board[LastCell]) >= 2
    /\ TopPiece(board[LastCell]) = last.piece

\* the blocking step of a Greedy side's choose_move in the game g, run as
\* choose_move runs it, after the search for a win
GreedyBlockingStep(g, n) ==
    FindMove("block",
             FindMove("win", [board |-> g.board, position |-> g.position],
                      n, g.current_player, RowMajor(n, 0), 1).st,
             n, g.current_player, RowMajor(n, 0), 1)

\* the cell a move goes to
TargetOf(c) == IF c.move_type = "place" THEN c.position ELSE c.to_position

\* the cells on which the opponent of the side to move would win at once,
\* with a New placement or with a Relocate move
OpponentWinsAt(g, n, cap) ==
    NewPlacementWinsAt(g.board, n, OpponentOf(g.current_player))
      \cup { TargetOf(c) :
               c \in WinningMoves([g EXCEPT !.current_player = OpponentOf(@)], n, cap) }

\* the move of the blocking step goes to a cell of a set, and the step
\* returns no move if the set is empty
BlocksOnlyAt(blocking, cells) ==
    /\ blocking.found => TargetOf(blocking.choice) \in cells
    /\ cells = {} => ~blocking.found

\* C36: the blocking step of a Greedy side without a winning move returns a
\* move to a cell only if the opponent would win at once on that cell, and
\* returns nothing if the opponent has no immediate win on the board
C36_GreedyBlocksOnlyThreats ==
    (/\ turn.op = "strategy_turn"
     /\ turn.strategy = "greedy"
     /\ WinningMoves(turn.before, size, max_turns) = {})
        => BlocksOnlyAt(GreedyBlockingStep(turn.before, size),
                        OpponentWinsAt(turn.before, size, max_turns))

\* abs(row - center) + abs(col - center), center = board.size // 2
DistanceToCenter(n, cell) ==
    (IF cell[1] >= n \div 2 THEN cell[1] - n \div 2 ELSE n \div 2 - cell[1])
      + (IF cell[2] >= n \div 2 THEN cell[2] - n \div 2 ELSE n \div 2 - cell[2])

\* the legal New placements of the side to move: a piece of its reserve and
\* a cell the board allows a new piece of its size on
LegalNewPlacements(g, n) ==
    { t \in GetAvailablePieces(g.position, g.current_player) \X Cells(n) :
        t[2] \in GetValidMovesForNewPiece(g.board, n, g.current_player, t[1].size) }

\* the move is a New placement, not one of a fall-back player, of a largest
\* piece that has a legal cell, on a legal cell of it nearest to the centre
IsStrategicPlacement(c, legal, n) ==
    /\ c.move_type = "place"
    /\ ~c.fresh
    /\ <<c.piece, c.position>> \in legal
    /\ \A t \in legal : t[1].size <= c.piece.size
    /\ \A t \in legal :
          t[1].size = c.piece.size
              => DistanceToCenter(n, c.position) <= DistanceToCenter(n, t[2])

\* C37: a Greedy side with neither a winning nor a blocking move and with a
\* legal New placement returns a New placement of a largest reserve piece on
\* the legal cell nearest to the centre of the board, and does not delegate
\* to Random; on the empty board that is a LARGE piece on a centre-most cell
C37_GreedyPlacesLargestNearCentre ==
    (/\ turn.op = "strategy_turn"
     /\ turn.strategy = "greedy"
     /\ LegalNewPlacements(turn.before, size) # {}
     /\ WinningMoves(turn.before, size, max_turns) = {}
     /\ ~GreedyBlockingStep(turn.before, size).found)
        => IsStrategicPlacement(turn.choice, LegalNewPlacements(turn.before, size), size)

\* C38: a Relocate move whose to_position is its from_position is rejected:
\* it is not applied and not recorded, and the side to move does not change
C38_RelocationOntoOwnCellIsRejected ==
    (/\ turn.op = "play_turn"
     /\ turn.choice.move_type = "move"
     /\ turn.choice.is_mapping
     /\ turn.choice.from_position # <<>>
     /\ turn.choice.to_position = turn.choice.from_position)
        => /\ ~turn.applied
           /\ moves = turn.before.moves
           /\ current_player = turn.before.current_player

====
